---- MODULE Spec2Model ----
(***************************************************************************)
(* A model of logmunch: the minute store and the write dispatcher         *)
(* (minute.rs), the search tree (search_token.rs), the file-set scanner    *)
(* (file_list.rs) and the minute database (minute_db.rs). Each component   *)
(* has its own specification; the variables of the others stay at rest.    *)
(*                                                                         *)
(* Strings are sequences of one-character strings, so that formatting,     *)
(* splitting, lower-casing and substring tests are computed, not assumed.  *)
(***************************************************************************)
EXTENDS Integers, Sequences, FiniteSets, TLC

VARIABLES
    \* ---- one Minute (minute.rs): its three tables, the clock, the last call
    log,            \* table log: set of rows [id, batch, log, host, host_time]
    fragments,      \* table search_fragments without its ids: set of [batch, fragment]
    fragment_ids,   \* the primary keys used in search_fragments
    bloom,          \* table bloom: set of rows [id, bloom]
    now_us,         \* the last reading of SystemTime::now(), in microseconds
    n_calls,        \* write_second and seal calls made so far (bounds the run)
    last_call,      \* the last operation applied to the minute and its outcome
    query,          \* the search string, when the last call was a search
    results,        \* the Logs it returned
    write_after_seal \* ghost: a write_second committed after a seal

minuteVars == <<log, fragments, fragment_ids, bloom, now_us, n_calls,
                last_call, query, results, write_after_seal>>

VARIABLES
    \* ---- the write dispatcher, ShardedMinute (minute.rs:307-427)
    tickets,        \* ShardedMinute.tickets: HashSet<WriteTicket>
    clock_s,        \* the last reading of SystemTime::now(), in seconds
    pending,        \* the tickets the loop of ShardedMinute::seal has yet to visit
    dispatch_pc,    \* "idle", or "seal" inside the seal that ends a write
    shard_files,    \* the minute files written: path ->
                    \* [events, blooms, write_after_seal, sealed_early]
    n_ticks         \* ShardedMinute::write calls made so far (bounds the run)

dispatchVars == <<tickets, clock_s, pending, dispatch_pc, shard_files, n_ticks>>

VARIABLES
    \* ---- one minute file from Minute::new to the id the scanner reads off its path
    created,        \* the arguments Minute::new was called with, or NoFile
    disk_path,      \* the path WalkDir reports for the file
    scanned         \* what parse_path and to_minute_id made of it

pathVars == <<created, disk_path, scanned>>

VARIABLES
    \* ---- the reader: FileInfo::scan_and_clean and MinuteDB (file_list.rs, minute_db.rs)
    disk,           \* the minute files in the data directory: MinuteId -> [sealed]
    n_minutes,      \* MinuteDB.n_minutes
    db,             \* the keys of MinuteDB.db
    bloom_cache,    \* the keys of MinuteDB.bloom_cache
    scan_files,     \* the files the last scan_and_clean returned
    scan_deleted,   \* the files the last scan_and_clean handed to remove_file
    reader_pc,      \* "new" before MinuteDB::new; in read_loop, "scan" before
                    \* scan_and_clean and "update" before update; "dead" once it panicked
    locks_poisoned, \* whether a panic left the two RwLocks of MinuteDB poisoned
    search_in,      \* the last search: what each minute answered, or Idle
    search_out      \* the last search: what MinuteDB::search did, or Idle

readerVars == <<disk, n_minutes, db, bloom_cache, scan_files, scan_deleted,
                reader_pc, locks_poisoned, search_in, search_out>>

VARIABLES
    \* ---- one walk of FileInfo::scan_and_clean over the data directory (file_list.rs)
    dir,            \* the regular files below the data directory, by path
    main_separator, \* std::path::MAIN_SEPARATOR of the build, once known
    scan_pc,        \* "boot", "idle", "walk" inside the loop, "done", "panic"
    scan_n,         \* the argument n_minutes of the scan
    walk_dir,       \* the files that were there when the walk began
    walk_todo,      \* the entries WalkDir has yet to yield
    recorded,       \* the Vec files, sorted once the walk is over
    unopenable_files, \* the HashSet unopenable_files
    returned,       \* the Vec the scan returned
    removed         \* the paths it handed to remove_file

scanVars == <<dir, main_separator, scan_pc, scan_n, walk_dir, walk_todo, recorded,
              unopenable_files, returned, removed>>

VARIABLES
    \* ---- one query from Search::new to Search::test (search_token.rs)
    parse_pc,       \* "idle", "asked", "tokenized", "built", "tested", "probed"
    parse_query,    \* the search string
    parse_text,     \* the event text it is tested on
    parse_tokens,   \* what tokenize returned
    parse_tree,     \* what build_tree returned, or Hang, or Panic
    parse_result,   \* what test returned
    parse_probe     \* what lambda_test and bloom_test returned

parseVars == <<parse_pc, parse_query, parse_text, parse_tokens, parse_tree, parse_result,
               parse_probe>>

VARIABLES
    \* ---- one ShardedMinute::write, thread by thread (minute.rs:328-378)
    tick_pc,        \* "idle", "spawn" in the loop that spawns, "join", "seal"
    tick_len,       \* data.len() when write was called
    tick_left,      \* data.len() now: the events 1..tick_left are still in data
    tick_n,         \* the loop variable n
    tick_threads,   \* the threads spawned: [node_id, unique_id, split_data, pc, wrote]
    tick_joined     \* how many of them have been joined

tickVars == <<tick_pc, tick_len, tick_left, tick_n, tick_threads, tick_joined>>

VARIABLES
    \* ---- one call of Minute::explode (minute.rs:124-139)
    explode_pc,         \* "idle", "done"
    explode_data,       \* the argument data
    explode_fragments   \* the HashSet fragments, empty before the call

explodeVars == <<explode_pc, explode_data, explode_fragments>>

VARIABLES
    \* ---- the locks of MinuteDB under concurrent calls (minute_db.rs:31-109)
    search_pc,      \* where each call of MinuteDB::search stands
    update_pc,      \* where the call of MinuteDB::update by read_loop stands
    map_locks,      \* the RwLocks of db and bloom_cache: readers and writer
    minute_lock,    \* the Mutex of the cached minute: the searches holding it
    minute_cached   \* whether the maps hold a minute

lockVars == <<search_pc, update_pc, map_locks, minute_lock, minute_cached>>

vars == <<minuteVars, dispatchVars, pathVars, readerVars, scanVars, parseVars, tickVars,
          explodeVars, lockVars>>

----------------------------------------------------------------------------
(* Strings *)

\* char::to_lowercase on the model's alphabet
LowerChar(c) ==
    CASE c = "D" -> "d"
      [] c = "F" -> "f"
      [] c = "W" -> "w"
      [] OTHER   -> c

\* str::to_lowercase
to_lowercase(s) == [i \in 1..Len(s) |-> LowerChar(s[i])]

\* char::is_whitespace on the model's alphabet
is_whitespace(c) == c = " "

\* str::contains(needle): needle occurs as a contiguous run of hay
contains(hay, needle) ==
    \E i \in 0..(Len(hay) - Len(needle)) :
        \A k \in 1..Len(needle) : hay[i + k] = needle[k]

\* a ++ b for strings
Concat(a, b) == a \o b

RECURSIVE SplitFrom(_, _, _, _)
\* str::split_whitespace: the maximal runs of non-whitespace characters
SplitFrom(s, i, cur, acc) ==
    IF i > Len(s)
    THEN IF cur = <<>> THEN acc ELSE Append(acc, cur)
    ELSE IF is_whitespace(s[i])
         THEN SplitFrom(s, i + 1, <<>>, IF cur = <<>> THEN acc ELSE Append(acc, cur))
         ELSE SplitFrom(s, i + 1, Append(cur, s[i]), acc)

split_whitespace(s) == SplitFrom(s, 1, <<>>, <<>>)

----------------------------------------------------------------------------
(* Fragment extractor: Minute::explode *)

\* the 3-character windows of one word, lower-cased (minute.rs:128-137)
WordWindows(word) ==
    { to_lowercase(SubSeq(word, l - 2, l)) : l \in 3..Len(word) }

\* mutant of explode: every word goes into the set as well, as the comment at
\* minute.rs:125 has it
explode_WithWords(data) ==
    LET words == split_whitespace(data)
    IN  UNION { WordWindows(words[w]) \cup {to_lowercase(words[w])} : w \in 1..Len(words) }

\* Minute::explode(fragments, data): the fragments it adds
explode(data) ==
    LET words == split_whitespace(data)
    IN  UNION { WordWindows(words[w]) : w \in 1..Len(words) }

----------------------------------------------------------------------------
(* Search tree: search_token.rs *)

\* SearchTree::quick_trigrams
quick_trigrams(token) == explode(token)

\* enum SearchTree (search_token.rs:13-19)
None == [t |-> "None"]
Token(tok) == [t |-> "Token", token |-> tok, trigrams |-> quick_trigrams(tok)]
\* mutant of Not: the negation is lost
Not_Dropped(tree) == tree

Not(tree) == [t |-> "Not", a |-> tree]
And(left, right) == [t |-> "And", l |-> left, r |-> right]
Or(left, right) == [t |-> "Or", l |-> left, r |-> right]

\* build_tree does not return: the loop at search_token.rs:144-148 never advances
Hang == [t |-> "Hang"]
\* build_tree panics: search_token.rs:184-186
Panic == [t |-> "Panic"]
Returns(tree) == tree.t \notin {"Hang", "Panic"}

LP == <<"(">>
RP == <<")">>
BANG == <<"!">>
PIPE == <<"|">>
AMP == <<"&">>

\* one step of the loop of SearchTree::tokenize (search_token.rs:33-83) on the
\* state st = [tokens, current_token, escape, in_quotes]
TokenizeChar(st, char) ==
    IF st.escape
    THEN [st EXCEPT !.current_token = Append(@, char), !.escape = FALSE]
    ELSE IF st.in_quotes /\ char = "\""
    THEN [st EXCEPT !.tokens = Append(@, st.current_token),
                    !.current_token = <<>>, !.in_quotes = FALSE]
    ELSE IF Len(st.current_token) = 0 /\ char = "\""
    THEN [st EXCEPT !.in_quotes = TRUE]
    ELSE IF st.in_quotes
    THEN [st EXCEPT !.current_token = Append(@, char)]
    ELSE IF Len(st.current_token) = 0 /\ char = "("
    THEN [st EXCEPT !.tokens = Append(@, LP)]
    ELSE IF char = ")"
    THEN [st EXCEPT !.tokens = Append(@, RP)]
    ELSE IF Len(st.current_token) = 0 /\ char = "!"
    THEN [st EXCEPT !.tokens = Append(@, BANG)]
    ELSE IF Len(st.current_token) = 0 /\ char = "|"
    THEN [st EXCEPT !.tokens = Append(@, PIPE)]
    ELSE IF char = " "
    THEN IF Len(st.current_token) > 0
         THEN [st EXCEPT !.tokens = Append(@, st.current_token), !.current_token = <<>>]
         ELSE st
    ELSE IF char = "\\"
    THEN [st EXCEPT !.escape = TRUE]
    ELSE [st EXCEPT !.current_token = Append(@, char)]

RECURSIVE TokenizeFrom(_, _, _)
TokenizeFrom(chars, i, st) ==
    IF i > Len(chars) THEN st
    ELSE TokenizeFrom(chars, i + 1, TokenizeChar(st, chars[i]))

\* SearchTree::tokenize
tokenize(search_string) ==
    LET st == TokenizeFrom(to_lowercase(search_string), 1,
                  [tokens |-> <<>>, current_token |-> <<>>,
                   escape |-> FALSE, in_quotes |-> FALSE])
    IN  IF Len(st.current_token) > 0
        THEN Append(st.tokens, st.current_token)
        ELSE st.tokens

RECURSIVE ScanParen(_, _, _)
\* the inner loop at search_token.rs:112-123: the index of the ")" that closes
\* the group, or one past the end
ScanParen(tokens, j, paren_count) ==
    IF j > Len(tokens) THEN j
    ELSE IF tokens[j] = LP THEN ScanParen(tokens, j + 1, paren_count + 1)
    ELSE IF tokens[j] = RP
         THEN IF paren_count - 1 = 0 THEN j
              ELSE ScanParen(tokens, j + 1, paren_count - 1)
    ELSE ScanParen(tokens, j + 1, paren_count)

Pop(stack) == SubSeq(stack, 1, Len(stack) - 1)
Top(stack) == stack[Len(stack)]
Rest(tokens, i) == SubSeq(tokens, i, Len(tokens))

\* the tail of build_tree_int, search_token.rs:184-200
BuildFinish(stack, pending_negation) ==
    IF Len(stack) > 2 THEN Panic
    ELSE IF Len(stack) = 0 THEN None
    ELSE IF Len(stack) = 1 THEN stack[1]
    ELSE IF pending_negation
         THEN Not(And(stack[2], stack[1]))
         ELSE And(stack[2], stack[1])

\* mutant of Toggle: a "!" sets the flag whatever it was
Toggle_Set(pending_negation) == TRUE

\* pending_negation = !pending_negation (search_token.rs:135)
Toggle(pending_negation) == ~pending_negation

RECURSIVE BuildLoop(_, _, _, _)
\* the while loop of build_tree_int, search_token.rs:107-182 (i is 1-based)
BuildLoop(tokens, i, stack, pending_negation) ==
    IF i > Len(tokens) THEN BuildFinish(stack, pending_negation)
    ELSE LET token == tokens[i] IN
    IF token = LP
    THEN LET j == ScanParen(tokens, i + 1, 1)
             sub == BuildLoop(SubSeq(tokens, i + 1, j - 1), 1, <<>>, FALSE)
         IN  IF ~Returns(sub) THEN sub
             ELSE BuildLoop(tokens, j + 1,
                      Append(stack, IF pending_negation THEN Not(sub) ELSE sub),
                      FALSE)
    ELSE IF token = BANG
    THEN BuildLoop(tokens, i + 1, stack, Toggle(pending_negation))
    ELSE IF token = PIPE /\ Len(stack) > 0
    THEN LET right == BuildLoop(Rest(tokens, i + 1), 1, <<>>, FALSE)
         IN  IF ~Returns(right) THEN right
             ELSE BuildFinish(Append(Pop(stack), Or(Top(stack), right)), FALSE)
    ELSE IF token = PIPE /\ Len(stack) = 0
    THEN Hang
    ELSE IF token = AMP /\ Len(stack) > 0
    THEN LET right == BuildLoop(Rest(tokens, i + 1), 1, <<>>, FALSE)
         IN  IF ~Returns(right) THEN right
             ELSE BuildFinish(Append(Pop(stack), And(Top(stack), right)), FALSE)
    ELSE IF Len(stack) = 1
    THEN LET right == BuildLoop(Rest(tokens, i), 1, <<>>, pending_negation)
         IN  IF ~Returns(right) THEN right
             ELSE BuildFinish(Append(Pop(stack), And(Top(stack), right)),
                              pending_negation)
    ELSE BuildLoop(tokens, i + 1,
             Append(stack, IF pending_negation THEN Not(Token(token)) ELSE Token(token)),
             FALSE)

\* SearchTree::build_tree_int
build_tree_int(tokens, pending_negation) == BuildLoop(tokens, 1, <<>>, pending_negation)

\* SearchTree::build_tree
build_tree(tokens) == build_tree_int(tokens, FALSE)

\* SearchTree::new / Search::new
Search_new(search_string) == build_tree(tokenize(search_string))

RECURSIVE test(_, _)
\* SearchTree::test
test(tree, event) ==
    CASE tree.t = "None"  -> TRUE
      [] tree.t = "Token" -> contains(to_lowercase(event), tree.token)
      [] tree.t = "Not"   -> ~test(tree.a, event)
      [] tree.t = "And"   -> test(tree.l, event) /\ test(tree.r, event)
      [] tree.t = "Or"    ->
            IF tree.l = None THEN test(tree.r, event)
            ELSE IF tree.r = None THEN test(tree.l, event)
            ELSE test(tree.l, event) \/ test(tree.r, event)

RECURSIVE lambda_test_NotProbed(_, _)
\* mutant of lambda_test: a Not node answers with the negation of its subtree
lambda_test_NotProbed(tree, have) ==
    CASE tree.t = "None"  -> TRUE
      [] tree.t = "Token" -> tree.trigrams \subseteq have
      [] tree.t = "Not"   -> ~lambda_test_NotProbed(tree.a, have)
      [] tree.t = "And"   -> lambda_test_NotProbed(tree.l, have) /\ lambda_test_NotProbed(tree.r, have)
      [] tree.t = "Or"    ->
            IF tree.l = None THEN lambda_test_NotProbed(tree.r, have)
            ELSE IF tree.r = None THEN lambda_test_NotProbed(tree.l, have)
            ELSE lambda_test_NotProbed(tree.l, have) \/ lambda_test_NotProbed(tree.r, have)

RECURSIVE lambda_test(_, _)
\* SearchTree::lambda_test; have is the set of fragments for which the caller's
\* lambda answers "present", so lambda(S) is S \subseteq have
lambda_test(tree, have) ==
    CASE tree.t = "None"  -> TRUE
      [] tree.t = "Token" -> tree.trigrams \subseteq have
      [] tree.t = "Not"   -> TRUE
      [] tree.t = "And"   -> lambda_test(tree.l, have) /\ lambda_test(tree.r, have)
      [] tree.t = "Or"    ->
            IF tree.l = None THEN lambda_test(tree.r, have)
            ELSE IF tree.r = None THEN lambda_test(tree.l, have)
            ELSE lambda_test(tree.l, have) \/ lambda_test(tree.r, have)

\* GrowableBloom::contains: no false negatives, possibly false positives
bloom_contains(filter, x) == x \in filter.items \/ x \in filter.false_positives

RECURSIVE bloom_test(_, _)
\* SearchTree::bloom_test
bloom_test(tree, filter) ==
    CASE tree.t = "None"  -> TRUE
      [] tree.t = "Token" -> \A trigram \in tree.trigrams : bloom_contains(filter, trigram)
      [] tree.t = "Not"   -> TRUE
      [] tree.t = "And"   -> bloom_test(tree.l, filter) /\ bloom_test(tree.r, filter)
      [] tree.t = "Or"    ->
            IF tree.l = None THEN bloom_test(tree.r, filter)
            ELSE IF tree.r = None THEN bloom_test(tree.l, filter)
            ELSE bloom_test(tree.l, filter) \/ bloom_test(tree.r, filter)

----------------------------------------------------------------------------
(* Minute: minute.rs.  One minute file: the tables log, search_fragments   *)
(* and bloom of one SQLite database.                                       *)

\* bounds of the minute model
MaxCalls == 3       \* write_second and seal calls per run

\* id = timestamp * 1000000 + sequence (minute.rs:154, 163)
IdScale == 1000000
\* as_millis against as_micros: microseconds per millisecond (minute.rs:144, 191)
UsPerMs == 1000

web1 == <<"w", "e", "b", "1">>
db2 == <<"d", "b">>
disk_full == <<"D", "i", "s", "k", " ", "f", "u", "l", "l">>
disk_ok == <<"d", "i", "s", "k", " ", "o", "k">>

\* crate::WritableEvent (main.rs:80-84): the events the producers hand over
event_full == [event |-> disk_full, host |-> web1, time |-> 1]
event_ok == [event |-> disk_ok, host |-> db2, time |-> 2]

\* the Vec<WritableEvent> arguments of write_second
Batches == { <<event_full>>, <<event_ok>>, <<event_full, event_ok>> }

\* the search strings
QueryPool ==
    { <<"d", "i", "s", "k">>,
      <<"F", "U", "L", "L">>,
      web1,
      db2,
      <<"!", "f", "u", "l", "l">>,
      <<"\"", "d", "i", "s", "k", " ", "f", "u", "l", "l", "\"">>,
      <<"f", "u", "l", "l", " ", "|", " ", "o", "k">>,
      <<>> }

\* fragments a bloom filter may report although they were never inserted
FalsePositivePool == { <<"f", "u", "l">> }

\* the time that passes between two calls on one handle: a call takes at
\* least a microsecond, and the next may fall in the same millisecond or a later one
Elapsed == {1, UsPerMs}

\* the fragments write_events_to_transaction collects (minute.rs:147-153):
\* the trigrams of every message, and every host verbatim
BatchFragments(data) ==
    UNION { explode(data[k].event) \cup {data[k].host} : k \in 1..Len(data) }

\* mutant of BatchRows: the sequence is advanced before the id is taken
BatchRows_FromOne(data, timestamp) ==
    { [id |-> timestamp * IdScale + k, batch |-> timestamp,
       log |-> data[k].event, host |-> data[k].host, host_time |-> data[k].time]
      : k \in 1..Len(data) }

\* the log rows write_events_to_transaction inserts (minute.rs:149-158)
BatchRows(data, timestamp) ==
    { [id |-> timestamp * IdScale + (k - 1), batch |-> timestamp,
       log |-> data[k].event, host |-> data[k].host, host_time |-> data[k].time]
      : k \in 1..Len(data) }

\* the ids of the fragment rows (minute.rs:161-165): sequence goes on counting
BatchFragmentIds(data, timestamp) ==
    { timestamp * IdScale + sequence
      : sequence \in (Len(data) + 1)..(Len(data) + Cardinality(BatchFragments(data))) }

\* mutant of KeyTaken: the id column is no primary key
KeyTaken_Never(id, keys) == FALSE

\* id INTEGER PRIMARY KEY (minute.rs:31-37, 46-52): an INSERT fails when the
\* table holds a row with this id
KeyTaken(id, keys) == id \in keys

\* an INSERT of write_events_to_transaction hits a PRIMARY KEY already present
WriteConflict(data, timestamp) ==
    \/ \E r \in BatchRows(data, timestamp) : KeyTaken(r.id, { o.id : o \in log })
    \/ \E id \in BatchFragmentIds(data, timestamp) : KeyTaken(id, fragment_ids)

\* the log rows the transaction holds when write_events_to_transaction ends:
\* the loop at minute.rs:149-158 returns at the first INSERT that fails
InsertedRows(data, timestamp) ==
    { r \in BatchRows(data, timestamp) :
        \A o \in BatchRows(data, timestamp) :
            o.id <= r.id => ~KeyTaken(o.id, { old.id : old \in log }) }

\* mutant of Rollback: what the transaction held stays in the table
Rollback_Kept(before, in_tx) == in_tx

\* write_second returns through `?` (minute.rs:172-173) and tx is dropped
\* uncommitted: a rusqlite Transaction rolls back when dropped
Rollback(before, in_tx) == before

\* mutant of is_sealed: the count is compared with the wrong bound
is_sealed_MoreThanOne == Cardinality(bloom) > 1

\* Minute::is_sealed
is_sealed == Cardinality(bloom) > 0

\* mutant of get_bloom_filter: the row of the latest seal is read
get_bloom_filter_Newest ==
    (CHOOSE row \in bloom : \A other \in bloom : row.id >= other.id).bloom

\* Minute::get_bloom_filter: SELECT bloom FROM bloom ORDER BY id ASC LIMIT 1
get_bloom_filter ==
    (CHOOSE row \in bloom : \A other \in bloom : row.id <= other.id).bloom

\* mutant of GeneratedItems: only the fragments of the latest batch are inserted
GeneratedItems_LatestBatch ==
    { f.fragment : f \in { g \in fragments : \A o \in fragments : o.batch <= g.batch } }

\* the items generate_bloom_filter inserts (minute.rs:178-184):
\* SELECT DISTINCT fragment FROM search_fragments
GeneratedItems == { f.fragment : f \in fragments }

\* Minute::write_second at clock reading now: one transaction; commit_ok tells
\* whether tx.commit() succeeds (the disk may be full). An error rolls
\* everything back
write_second(data, now, commit_ok) ==
    LET timestamp == now \div UsPerMs
        tx_log == log \cup InsertedRows(data, timestamp)
        all_logged == InsertedRows(data, timestamp) = BatchRows(data, timestamp)
        tx_fragments == IF all_logged
                        THEN fragments \cup { [batch |-> timestamp, fragment |-> f]
                                                : f \in BatchFragments(data) }
                        ELSE fragments
        tx_fragment_ids == IF all_logged
                           THEN fragment_ids \cup BatchFragmentIds(data, timestamp)
                           ELSE fragment_ids
    IN  /\ n_calls < MaxCalls
        /\ n_calls' = n_calls + 1
        /\ now_us' = now
        /\ IF ~WriteConflict(data, timestamp) /\ commit_ok
           THEN /\ log' = tx_log
                /\ fragments' = tx_fragments
                /\ fragment_ids' = tx_fragment_ids
                /\ write_after_seal' = (write_after_seal \/ is_sealed)
                /\ last_call' = [op |-> "write_second", ok |-> TRUE]
           ELSE /\ log' = Rollback(log, tx_log)
                /\ fragments' = Rollback(fragments, tx_fragments)
                /\ fragment_ids' = Rollback(fragment_ids, tx_fragment_ids)
                /\ UNCHANGED write_after_seal
                /\ last_call' = [op |-> "write_second", ok |-> FALSE]
        /\ query' = <<>>
        /\ results' = {}
        /\ UNCHANGED bloom

\* Minute::seal at clock reading now: the indexes, generate_bloom_filter, VACUUM
Minute_seal(false_positives, now) ==
    /\ n_calls < MaxCalls
    /\ n_calls' = n_calls + 1
    /\ now_us' = now
    /\ IF \A row \in bloom : row.id # now
       THEN /\ bloom' = bloom \cup
                   { [id |-> now,
                      bloom |-> [items |-> GeneratedItems,
                                 false_positives |-> false_positives]] }
            /\ last_call' = [op |-> "seal", ok |-> TRUE]
       ELSE /\ UNCHANGED bloom
            /\ last_call' = [op |-> "seal", ok |-> FALSE]
    /\ query' = <<>>
    /\ results' = {}
    /\ UNCHANGED <<log, fragments, fragment_ids, write_after_seal>>

\* SELECT DISTINCT batch FROM log
ListBatches == { r.batch : r \in log }

\* the lambda of Minute::search (minute.rs:249-266) answers for the fragments
\* stored with this batch
FragmentsOfBatch(batch_id) == { f.fragment : f \in { g \in fragments : g.batch = batch_id } }

\* minute.rs:249-269: the batches the fragment probe does not disqualify
SurvivingBatches(tree) ==
    { batch_id \in ListBatches : lambda_test(tree, FragmentsOfBatch(batch_id)) }

\* the test string of a row (minute.rs:276)
SearchString(row) == Concat(row.host, Concat(<<" ">>, row.log))

\* the Log built from a row (minute.rs:278-283)
LogOf(row) ==
    [id |-> row.id, message |-> row.log, host |-> row.host, time |-> row.host_time]

\* mutant of BatchMatches: every row of a surviving batch is returned
BatchMatches_NoTest(tree, batch_id) ==
    { LogOf(r) : r \in { o \in log : o.batch = batch_id } }

\* minute.rs:271-289: the rows of one batch that pass the exact test, as Logs
BatchMatches(tree, batch_id) ==
    { LogOf(r) : r \in { o \in log : o.batch = batch_id /\ test(tree, SearchString(o)) } }

\* the Vec<Log> Minute::search returns, as the set of its elements: the batches
\* are visited in the iteration order of a HashSet, which the model leaves open,
\* and no row is pushed twice
SearchResults(tree) ==
    UNION { BatchMatches(tree, batch_id) : batch_id \in SurvivingBatches(tree) }

\* Minute::search
Minute_search(search_string) ==
    LET tree == Search_new(search_string)
    IN  /\ Returns(tree)
        /\ query' = search_string
        /\ results' = SearchResults(tree)
        /\ last_call' = [op |-> "search", ok |-> TRUE]
        /\ UNCHANGED <<log, fragments, fragment_ids, bloom, now_us, n_calls,
                       write_after_seal>>

\* Minute::new on a fresh path: three empty tables
MinuteInit ==
    /\ log = {}
    /\ fragments = {}
    /\ fragment_ids = {}
    /\ bloom = {}
    /\ now_us = UsPerMs
    /\ n_calls = 0
    /\ last_call = [op |-> "new", ok |-> TRUE]
    /\ query = <<>>
    /\ results = {}
    /\ write_after_seal = FALSE

WriteSecond ==
    \E data \in Batches : \E d \in Elapsed : \E commit_ok \in BOOLEAN :
        write_second(data, now_us + d, commit_ok)
Seal == \E fp \in SUBSET FalsePositivePool : \E d \in Elapsed : Minute_seal(fp, now_us + d)
Search == \E q \in QueryPool : Minute_search(q)

----------------------------------------------------------------------------
(* Paths: Minute::new formats them, FileInfo::parse_path reads them back *)

Digit(n) == <<"0", "1", "2", "3", "4", "5", "6", "7", "8", "9">>[n + 1]

RECURSIVE Decimal(_)
\* format!("{}", n) of an unsigned integer
Decimal(n) == IF n < 10 THEN <<Digit(n)>> ELSE Decimal(n \div 10) \o <<Digit(n % 10)>>

\* format!("{}-{}", machine_id, n): the dispatcher's shard ids (minute.rs:356, 395)
shard_unique_id(machine_id, n) == Decimal(machine_id) \o <<"-">> \o Decimal(n)

\* minutepath of Minute::new (minute.rs:80)
minutepath(data_directory, day, hour, minute, unique_id) ==
    data_directory \o <<"/">> \o Decimal(day) \o <<"/">> \o Decimal(hour) \o <<"/">>
        \o Decimal(minute) \o <<"-">> \o unique_id \o <<".", "d", "b">>

----------------------------------------------------------------------------
(* The write dispatcher: ShardedMinute, minute.rs:296-427 *)

\* bounds of the dispatcher model
MaxTicks == 3       \* ShardedMinute::write calls per run
MaxMinutes == 2     \* the clock runs over the first minute and MaxMinutes more

MAX_WRITE_PER_SECOND_PER_THREAD == 3000
SecondsPerDay == 86400
SecondsPerHour == 3600
SecondsPerMinute == 60

\* the clock starts in the last minute of a day, so that day, hour and minute
\* all change when it ends
ClockStart == SecondsPerDay - SecondsPerMinute

\* MACHINE_ID (main.rs:180)
MachineId == 1
\* DATA_DIRECTORY
DataDirectory == <<"v">>

\* the sizes of the buffers the dispatcher is handed
DataLens == {0, 1, MAX_WRITE_PER_SECOND_PER_THREAD}

\* the time that passes between two readings of the clock, in seconds
ElapsedSeconds == {0, SecondsPerMinute}

\* minute.rs:334-336 and 390-392
DayOf(timestamp) == timestamp \div SecondsPerDay
HourOf(timestamp) == (timestamp % SecondsPerDay) \div SecondsPerHour
MinuteOf(timestamp) == (timestamp % SecondsPerHour) \div SecondsPerMinute

\* WriteTicket (minute.rs:299-305)
WriteTicket(day, hour, minute, machine_id, n) ==
    [days |-> day, hours |-> hour, minutes |-> minute,
     machine_id |-> machine_id, node_id |-> n]

\* the file a ticket names (minute.rs:395-401, 356-360)
TicketPath(node) ==
    minutepath(DataDirectory, node.days, node.hours, node.minutes,
               shard_unique_id(node.machine_id, node.node_id))

RECURSIVE Chunks(_, _, _)
\* the loop at minute.rs:338-347 over a buffer holding the events 1..len: the
\* events [lo..hi] handed to each thread n, n_threads - n threads still to come
Chunks(len, n, n_threads) ==
    IF n = n_threads THEN <<>>
    ELSE IF len < MAX_WRITE_PER_SECOND_PER_THREAD
         THEN <<[lo |-> 1, hi |-> len]>> \o Chunks(0, n + 1, n_threads)
         ELSE <<[lo |-> len - MAX_WRITE_PER_SECOND_PER_THREAD + 1, hi |-> len]>>
                  \o Chunks(len - MAX_WRITE_PER_SECOND_PER_THREAD, n + 1, n_threads)

ChunkLen(c) == c.hi - c.lo + 1

\* the first second of the minute a ticket names, and of the minute of a clock reading
TicketStart(node) ==
    node.days * SecondsPerDay + node.hours * SecondsPerHour + node.minutes * SecondsPerMinute
MinuteStart(timestamp) == (timestamp \div SecondsPerMinute) * SecondsPerMinute

\* a minute file as Minute::new creates it: no rows, no bloom; sealed_early
\* notes a seal that came before the minute of the file was over
NewFile == [events |-> 0, blooms |-> 0, write_after_seal |-> FALSE, sealed_early |-> FALSE]

\* Minute::new: opens the file, creating it when it is absent
OpenFile(files, path) ==
    IF path \in DOMAIN files THEN files ELSE files @@ (path :> NewFile)

\* Minute::write_second on the file at path
WriteFile(files, path, n_events) ==
    [files EXCEPT ![path] =
        [@ EXCEPT !.events = @ + n_events,
                  !.write_after_seal = (@ \/ files[path].blooms > 0)]]

\* Minute::seal on the file at path, at clock reading timestamp, for the
\* ticket node: one more row in its bloom table
SealFile(files, path, node, timestamp) ==
    [files EXCEPT ![path] =
        [@ EXCEPT !.blooms = @ + 1,
                  !.sealed_early = (@ \/ TicketStart(node) >= MinuteStart(timestamp))]]

RECURSIVE RunThreads(_, _, _, _, _, _)
\* the threads spawned at minute.rs:357-368 and joined at 371-373; each opens its
\* own file, so the order in which they run does not show
RunThreads(files, chunks, n, day, hour, minute) ==
    IF n > Len(chunks) THEN files
    ELSE LET path == minutepath(DataDirectory, day, hour, minute,
                                shard_unique_id(MachineId, n - 1))
             opened == OpenFile(files, path)
             after == IF ChunkLen(chunks[n]) > 0
                      THEN WriteFile(opened, path, ChunkLen(chunks[n]))
                      ELSE opened
         IN  RunThreads(after, chunks, n + 1, day, hour, minute)

\* mutant of ShouldSeal: the test is taken the wrong way round
ShouldSeal_Inverted(node, day, hour, minute) ==
    node.days = day /\ node.hours = hour /\ node.minutes = minute

\* mutant of ShouldSeal: the ticket of the current minute is sealed too
ShouldSeal_Always(node, day, hour, minute) == TRUE

\* the test at minute.rs:393
ShouldSeal(node, day, hour, minute) ==
    ~(node.days = day /\ node.hours = hour /\ node.minutes = minute)

\* ShardedMinute::write up to the join of its threads (minute.rs:328-373), at
\* clock reading timestamp; the seal it ends with follows, a ticket at a time
ShardedMinute_write(len, timestamp) ==
    LET n_threads == (len \div MAX_WRITE_PER_SECOND_PER_THREAD) + 1
        day == DayOf(timestamp)
        hour == HourOf(timestamp)
        minute == MinuteOf(timestamp)
        chunks == Chunks(len, 0, n_threads)
        registered == tickets \cup
            { WriteTicket(day, hour, minute, MachineId, n) : n \in 0..(n_threads - 1) }
    IN  /\ dispatch_pc = "idle"
        /\ n_ticks < MaxTicks
        /\ n_ticks' = n_ticks + 1
        /\ clock_s' = timestamp
        /\ tickets' = registered
        /\ shard_files' = RunThreads(shard_files, chunks, 1, day, hour, minute)
        /\ pending' = registered
        /\ dispatch_pc' = "seal"

\* one iteration of the loop of ShardedMinute::seal (minute.rs:388-404) on the
\* ticket node, at clock reading timestamp; a failing Minute::seal ends the loop
ShardedMinute_seal(node, timestamp, storage_ok) ==
    LET path == TicketPath(node)
        seals == ShouldSeal(node, DayOf(timestamp), HourOf(timestamp), MinuteOf(timestamp))
    IN  /\ dispatch_pc = "seal"
        /\ node \in pending
        /\ clock_s' = timestamp
        /\ IF seals /\ ~storage_ok
           THEN /\ shard_files' = OpenFile(shard_files, path)
                /\ pending' = {}
           ELSE /\ shard_files' = IF seals
                                  THEN SealFile(OpenFile(shard_files, path), path,
                                                node, timestamp)
                                  ELSE shard_files
                /\ pending' = pending \ {node}
        /\ dispatch_pc' = IF pending' = {} THEN "idle" ELSE "seal"
        /\ UNCHANGED <<tickets, n_ticks>>

\* ShardedMinute::new
DispatchInit ==
    /\ tickets = {}
    /\ clock_s = ClockStart
    /\ pending = {}
    /\ dispatch_pc = "idle"
    /\ shard_files = <<>>
    /\ n_ticks = 0

ClockReadings == { t \in { clock_s + d : d \in ElapsedSeconds } :
                     t <= ClockStart + MaxMinutes * SecondsPerMinute }

Write == \E len \in DataLens : \E t \in ClockReadings : ShardedMinute_write(len, t)
SealTicket ==
    \E node \in pending : \E t \in ClockReadings : \E storage_ok \in BOOLEAN :
        ShardedMinute_seal(node, t, storage_ok)

----------------------------------------------------------------------------
(* The scanner's reading of a path: FileInfo::parse_path, file_list.rs:23-36 *)

\* the inputs of the path model
Days == {0, 10, 20000}
Hours == {0, 9, 23}
Minutes == {0, 7, 59}
UniqueIds == { shard_unique_id(MachineId, 0), shard_unique_id(MachineId, 1),
               <<"b", "o", "r", "p">> }
\* std::path::MAIN_SEPARATOR of the two families of build targets
Separators == { "/", "\\" }

NoFile == [t |-> "none"]

IsPrefixAt(s, pat, i) ==
    /\ i + Len(pat) - 1 <= Len(s)
    /\ SubSeq(s, i, i + Len(pat) - 1) = pat

RECURSIVE ReplaceFrom(_, _, _)
ReplaceFrom(s, pat, i) ==
    IF i > Len(s) THEN <<>>
    ELSE IF IsPrefixAt(s, pat, i) THEN ReplaceFrom(s, pat, i + Len(pat))
    ELSE <<s[i]>> \o ReplaceFrom(s, pat, i + 1)

\* str::replace(pat, ""): every occurrence of a non-empty pat, left to right
replace(s, pat) == ReplaceFrom(s, pat, 1)

RECURSIVE SplitOn(_, _, _, _)
SplitOn(s, sep, i, cur) ==
    IF i > Len(s) THEN <<cur>>
    ELSE IF s[i] = sep THEN <<cur>> \o SplitOn(s, sep, i + 1, <<>>)
    ELSE SplitOn(s, sep, i + 1, Append(cur, s[i]))

\* str::split(sep).collect(): one more part than there are separators
split(s, sep) == SplitOn(s, sep, 1, <<>>)

DigitValue(c) ==
    CASE c = "0" -> 0 [] c = "1" -> 1 [] c = "2" -> 2 [] c = "3" -> 3 [] c = "4" -> 4
      [] c = "5" -> 5 [] c = "6" -> 6 [] c = "7" -> 7 [] c = "8" -> 8 [] c = "9" -> 9
      [] OTHER -> -1

RECURSIVE DigitsValue(_, _)
DigitsValue(s, acc) ==
    IF s = <<>> THEN acc ELSE DigitsValue(Tail(s), acc * 10 + DigitValue(Head(s)))

\* str::parse::<i32> of a string: digits only and at least one (the paths of the
\* model carry no sign, and their numbers stay below ten digits, within i32)
parse_i32(s) ==
    IF s = <<>> \/ (\E i \in 1..Len(s) : DigitValue(s[i]) < 0) \/ Len(s) > 9
    THEN [ok |-> FALSE, value |-> 0]
    ELSE [ok |-> TRUE, value |-> DigitsValue(s, 0)]

\* the outcomes of parse_path
PathOk(day, hour, minute, unique_id) ==
    [t |-> "ok", day |-> day, hour |-> hour, minute |-> minute, unique_id |-> unique_id]
PathErr == [t |-> "err"]
PathPanic == [t |-> "panic"]

\* FileInfo::parse_path (file_list.rs:27-36); indexing past the end of a Vec panics
parse_path(path) ==
    LET parts == split(path, "\\")
    IN  IF Len(parts) < 2 THEN PathPanic
        ELSE IF ~parse_i32(parts[2]).ok THEN PathErr
        ELSE IF Len(parts) < 3 THEN PathPanic
        ELSE IF ~parse_i32(parts[3]).ok THEN PathErr
        ELSE IF Len(parts) < 4 THEN PathPanic
        ELSE LET minute_and_unique_id == replace(parts[4], <<".", "d", "b">>)
                 halves == split(minute_and_unique_id, "-")
             IN  IF ~parse_i32(halves[1]).ok THEN PathErr
                 ELSE IF Len(halves) < 2 THEN PathPanic
                 ELSE PathOk(parse_i32(parts[2]).value, parse_i32(parts[3]).value,
                             parse_i32(halves[1]).value, halves[2])

\* MinuteId::new (minute_id.rs:42-49)
MinuteId(day, hour, minute, unique_id) ==
    [day |-> day, hour |-> hour, minute |-> minute, unique_id |-> unique_id]

\* FileInfo::to_minute_id (file_list.rs:23-25) of the FileInfo built from a parse
to_minute_id(parsed) == MinuteId(parsed.day, parsed.hour, parsed.minute, parsed.unique_id)

\* the path WalkDir::new(data_directory) reports for a file Minute::new made:
\* the root as given, then one component after another, joined by the separator
WalkPath(data_directory, day, hour, minute, unique_id, separator) ==
    data_directory \o <<separator>> \o Decimal(day) \o <<separator>> \o Decimal(hour)
        \o <<separator>> \o Decimal(minute) \o <<"-">> \o unique_id \o <<".", "d", "b">>

\* Minute::new(day, hour, minute, unique_id, data_directory) on a build whose
\* path separator is separator
Minute_new(day, hour, minute, unique_id, separator) ==
    /\ created = NoFile
    /\ created' = [t |-> "file", id |-> MinuteId(day, hour, minute, unique_id),
                   path |-> minutepath(DataDirectory, day, hour, minute, unique_id)]
    /\ disk_path' = WalkPath(DataDirectory, day, hour, minute, unique_id, separator)
    /\ UNCHANGED scanned

\* the body of the loop of scan_and_clean for the file (file_list.rs:48-80)
ScanPath ==
    /\ created # NoFile
    /\ scanned = NoFile
    /\ LET path == replace(disk_path, DataDirectory)
           parsed == parse_path(path)
       IN  scanned' = IF parsed.t = "ok"
                      THEN [t |-> "ok", id |-> to_minute_id(parsed)]
                      ELSE parsed
    /\ UNCHANGED <<created, disk_path>>

PathInit ==
    /\ created = NoFile
    /\ disk_path = <<>>
    /\ scanned = NoFile

CreateFile ==
    \E day \in Days : \E hour \in Hours : \E minute \in Minutes :
        \E unique_id \in UniqueIds : \E separator \in Separators :
            Minute_new(day, hour, minute, unique_id, separator)

----------------------------------------------------------------------------
(* The reader: FileInfo::scan_and_clean (file_list.rs:38-122) and MinuteDB
   (minute_db.rs). The data directory holds minute files whose paths the
   scanner reads back to the id they were created with. *)

\* the minute files that may come to exist, and what the scanner may read
ReaderIds == { MinuteId(0, 0, 1, <<"a">>), MinuteId(0, 0, 2, <<"a">>),
               MinuteId(0, 1, 0, <<"a">>) }
\* seconds since a file was last modified, as metadata reports them to a scan
Ages == {10, 150}
\* the retention the MinuteDB is built with
Retentions == {1, 2}
\* the rows one minute may add to a search
HitCounts == {1, 31, 1001}

Idle == [t |-> "idle"]

DayWeight == 1000000
HourWeight == 10000
MinuteWeight == 100

\* sort_key (file_list.rs:73)
sort_key(day, hour, minute, last_modified) ==
    day * DayWeight + hour * HourWeight + minute * MinuteWeight + last_modified

Min(a, b) == IF a < b THEN a ELSE b

\* what files.sort_by(|a, b| b.sort_key.cmp(&a.sort_key)) followed by
\* split_off(n_minutes) may keep: the n_minutes first of the files in falling
\* key order; files of equal key stay in the order the walk found them, which
\* is any order
KeptSets(files, last_modified, n) ==
    LET key(f) == sort_key(f.day, f.hour, f.minute, last_modified[f])
    IN  { kept \in SUBSET files :
            /\ Cardinality(kept) = Min(n, Cardinality(files))
            /\ \A k \in kept : \A d \in files \ kept : key(k) >= key(d) }

Restrict(f, S) == [x \in S |-> f[x]]

\* FileInfo::scan_and_clean: last_modified is what metadata reports for each
\* file, remove_fails the files whose fs::remove_file fails (remove_file prints
\* the error and goes on)
scan_and_clean(last_modified, kept, remove_fails) ==
    LET files == DOMAIN disk
        extra_files == files \ kept
    IN  /\ reader_pc = "scan"
        /\ kept \in KeptSets(files, last_modified, n_minutes)
        /\ disk' = Restrict(disk, files \ (extra_files \ remove_fails))
        /\ scan_files' = kept
        /\ scan_deleted' = extra_files
        /\ reader_pc' = "update"
        /\ search_in' = Idle
        /\ search_out' = Idle
        /\ UNCHANGED <<n_minutes, db, bloom_cache, locks_poisoned>>

\* the faults storage may raise while update loads one key
Faults == {"none", "open_err", "sealed_err", "sealed_bloom_err", "bloom_err"}

\* mutant of KeyOutcome: whatever opens is loaded
KeyOutcome_NoSealCheck(sealed, fault) ==
    IF fault = "open_err" THEN "err" ELSE "insert"

\* the body of the second loop of MinuteDB::update for a key that is not in db
\* (minute_db.rs:88-102): Minute::new, is_sealed, get_bloom_filter, the inserts
KeyOutcome(sealed, fault) ==
    IF fault = "open_err" THEN "err"                     \* Minute::new(..)?
    ELSE LET report == IF fault \in {"sealed_err", "sealed_bloom_err"}
                       THEN "Err"
                       ELSE IF sealed THEN "Ok(true)" ELSE "Ok(false)"
         IN  IF report = "Ok(false)" THEN "skip"         \* continue
             ELSE IF fault \in {"bloom_err", "sealed_bloom_err"}
                  THEN "err"                             \* get_bloom_filter()?
             ELSE IF ~sealed THEN "panic"                \* rows.next()?.unwrap()
             ELSE "insert"

\* Minute::new creates the file it does not find
Opened(files, key) ==
    IF key \in DOMAIN files THEN files ELSE files @@ (key :> [sealed |-> FALSE])

\* mutant of Retained: no key is dropped
Retained_All(keys, new_list) == keys

\* the first loop of update (minute_db.rs:79-85): the keys of a map that are
\* not in new_list are removed from it
Retained(keys, new_list) == keys \cap new_list

\* mutant of CacheInsert: the entry is not stored
CacheInsert_Skipped(cache, key) == cache

\* bloom_cache.insert(key, Arc::new(bloom)) (minute_db.rs:100)
CacheInsert(cache, key) == cache \cup {key}

RECURSIVE UpdateKeys(_, _, _, _)
\* the second loop of update over new_list in the order the HashSet yields it;
\* st holds db, bloom_cache, the directory, the keys whose minute this pass
\* opened and handed on, and whether the loop still runs
UpdateKeys(st, order, i, fault) ==
    IF i > Len(order) \/ st.status # "run" THEN st
    ELSE LET key == order[i]
         IN  IF key \in st.db THEN UpdateKeys(st, order, i + 1, fault)
             ELSE LET f == IF fault.key = key THEN fault.kind ELSE "none"
                      files == IF f = "open_err" THEN st.disk ELSE Opened(st.disk, key)
                      outcome == KeyOutcome(key \in DOMAIN st.disk /\ st.disk[key].sealed, f)
                      next ==
                          CASE outcome = "insert" ->
                                 [st EXCEPT !.disk = files,
                                            !.opened = @ \cup {key},
                                            !.bloom_cache = CacheInsert(@, key),
                                            !.db = @ \cup {key}]
                            [] outcome = "skip" ->
                                 [st EXCEPT !.disk = files, !.opened = @ \cup {key}]
                            [] OTHER -> [st EXCEPT !.disk = files, !.status = outcome]
                  IN  UpdateKeys(next, order, i + 1, fault)

\* the orders in which a HashSet may yield its elements
Orders(S) ==
    { o \in [1..Cardinality(S) -> S] : \A i, j \in 1..Cardinality(S) : i # j => o[i] # o[j] }

\* MinuteDB::update(new_list) as read_loop calls it (minute_db.rs:71-109, 121-127);
\* fault names the key at which storage fails, if any. A panic inside update
\* unwinds through both write guards, which poisons the locks, and ends the
\* thread of read_loop; an Err is printed by read_loop, which goes on.
\* UpdateEnd is what the two loops leave behind, update the step of read_loop
UpdateEnd(order, fault) ==
    LET new_list == scan_files
        start == [db |-> Retained(db, new_list),
                  bloom_cache |-> Retained(bloom_cache, new_list),
                  disk |-> disk, opened |-> {}, status |-> "run"]
    IN  UpdateKeys(start, order, 1, fault)

update(order, fault) ==
    LET new_list == scan_files
        end == UpdateEnd(order, fault)
    IN  /\ reader_pc = "update"
        /\ order \in Orders(new_list)
        /\ db' = end.db
        /\ bloom_cache' = end.bloom_cache
        /\ disk' = end.disk
        /\ locks_poisoned' = (end.status = "panic")
        /\ reader_pc' = IF end.status = "panic" THEN "dead" ELSE "scan"
        /\ scan_deleted' = {}
        /\ search_in' = Idle
        /\ search_out' = Idle
        /\ UNCHANGED <<n_minutes, scan_files>>

\* the rank of a character in the order of str::cmp, for the characters of ids
CharRank(c) ==
    CASE c = "-" -> 0 [] DigitValue(c) >= 0 -> 1 + DigitValue(c)
      [] c = "a" -> 11 [] c = "b" -> 12 [] c = "o" -> 13 [] c = "p" -> 14
      [] c = "r" -> 15 [] OTHER -> 16

RECURSIVE StrLess(_, _)
\* a < b for strings (lexicographic, a proper prefix first)
StrLess(a, b) ==
    IF b = <<>> THEN FALSE
    ELSE IF a = <<>> THEN TRUE
    ELSE IF CharRank(Head(a)) # CharRank(Head(b)) THEN CharRank(Head(a)) < CharRank(Head(b))
    ELSE StrLess(Tail(a), Tail(b))

\* a < b under MinuteId::partial_cmp (minute_id.rs:11-33)
MinuteIdLess(a, b) ==
    IF a.day # b.day THEN a.day < b.day
    ELSE IF a.hour # b.hour THEN a.hour < b.hour
    ELSE IF a.minute # b.minute THEN a.minute < b.minute
    ELSE StrLess(a.unique_id, b.unique_id)

RECURSIVE Ascending(_)
\* the keys of a BTreeMap in the order iter() yields them
Ascending(S) ==
    IF S = {} THEN <<>>
    ELSE LET first == CHOOSE x \in S : \A y \in S \ {x} : MinuteIdLess(x, y)
         IN  <<first>> \o Ascending(S \ {first})

RECURSIVE RowCount(_)
\* results.len(), list held as the runs of rows each minute added
RowCount(list) ==
    IF list = <<>> THEN 0 ELSE Head(list).rows + RowCount(Tail(list))

\* mutant of Truncate: the list is returned whole
Truncate_None(list, max) == list

RECURSIVE Truncate(_, _)
\* results.truncate(max)
Truncate(list, max) ==
    IF list = <<>> \/ max = 0 THEN <<>>
    ELSE IF Head(list).rows >= max THEN <<[Head(list) EXCEPT !.rows = max]>>
    ELSE <<Head(list)>> \o Truncate(Tail(list), max - Head(list).rows)

results_min == 30
results_max == 1000

RECURSIVE SearchLoop(_, _, _, _)
\* the loop of MinuteDB::search (minute_db.rs:45-55) from the i-th key of
\* bloom_cache on; probe tells what each minute answers to this query
SearchLoop(keys, i, list, probe) ==
    IF i > Len(keys) THEN [t |-> "Ok", results |-> Truncate(list, results_max)]
    ELSE LET minute_id == keys[i]
         IN  IF minute_id \notin probe.bloom_passes \/ minute_id \notin db
             THEN SearchLoop(keys, i + 1, list, probe)
             ELSE IF minute_id \in probe.fails
             THEN [t |-> "Err"]          \* search_within_minute(..)?
             ELSE LET hits == probe.hits[minute_id]
                      extended == Append(list, [minute |-> minute_id, rows |-> hits])
                  IN  IF RowCount(extended) > results_min
                      THEN [t |-> "Ok", results |-> Truncate(extended, results_max)]
                      ELSE SearchLoop(keys, i + 1, extended, probe)

\* MinuteDB::search (minute_db.rs:37-60), run at any moment of the read loop:
\* bloom_passes are the minutes whose cached bloom passes search.bloom_test, fails
\* those where search_within_minute returns Err (the mutex of the minute is
\* poisoned, or storage fails), hits the rows each of the others adds
MinuteDB_search(probe) ==
    /\ reader_pc # "new"
    /\ search_in' = probe
    /\ search_out' = IF locks_poisoned
                     THEN [t |-> "panic"]        \* self.db.read().unwrap()
                     ELSE SearchLoop(Ascending(bloom_cache), 1, <<>>, probe)
    /\ UNCHANGED <<disk, n_minutes, db, bloom_cache, scan_files, scan_deleted,
                   reader_pc, locks_poisoned>>

\* search_endpoint (main.rs:140-153): the list the caller is sent
search_endpoint(out) == IF out.t = "Ok" THEN out.results ELSE <<>>

\* the writer, seen from the reader: Minute::new makes a file, unsealed
WriterCreates(id) ==
    /\ id \notin DOMAIN disk
    /\ disk' = disk @@ (id :> [sealed |-> FALSE])
    /\ search_in' = Idle
    /\ search_out' = Idle
    /\ UNCHANGED <<n_minutes, db, bloom_cache, scan_files, scan_deleted,
                   reader_pc, locks_poisoned>>

\* the writer, seen from the reader: Minute::seal gives the file its bloom row
WriterSeals(id) ==
    /\ id \in DOMAIN disk
    /\ ~disk[id].sealed
    /\ disk' = [disk EXCEPT ![id] = [sealed |-> TRUE]]
    /\ search_in' = Idle
    /\ search_out' = Idle
    /\ UNCHANGED <<n_minutes, db, bloom_cache, scan_files, scan_deleted,
                   reader_pc, locks_poisoned>>

\* MinuteDB::new (minute_db.rs:21-29), after which read_loop starts
MinuteDB_new(retention) ==
    /\ reader_pc = "new"
    /\ n_minutes' = retention
    /\ db' = {}
    /\ bloom_cache' = {}
    /\ reader_pc' = "scan"
    /\ UNCHANGED <<disk, scan_files, scan_deleted, locks_poisoned, search_in, search_out>>

\* an empty data directory, and no MinuteDB yet
ReaderInit ==
    /\ disk = <<>>
    /\ n_minutes = 0
    /\ db = {}
    /\ bloom_cache = {}
    /\ scan_files = {}
    /\ scan_deleted = {}
    /\ reader_pc = "new"
    /\ locks_poisoned = FALSE
    /\ search_in = Idle
    /\ search_out = Idle

NewDB == \E retention \in Retentions : MinuteDB_new(retention)
Create == \E id \in ReaderIds : WriterCreates(id)
SealMinute == \E id \in ReaderIds : WriterSeals(id)
ScanAndClean ==
    \E last_modified \in [DOMAIN disk -> Ages] :
        \E kept \in SUBSET DOMAIN disk : \E remove_fails \in SUBSET DOMAIN disk :
            scan_and_clean(last_modified, kept, remove_fails)
Update ==
    \E order \in Orders(scan_files) :
        \E fault \in [key : ReaderIds, kind : Faults] : update(order, fault)
SearchDB ==
    \E bloom_passes \in SUBSET bloom_cache :
        \E fails \in SUBSET bloom_passes : \E hits \in [bloom_passes \ fails -> HitCounts] :
            MinuteDB_search([t |-> "search", bloom_passes |-> bloom_passes,
                             fails |-> fails, hits |-> hits])

----------------------------------------------------------------------------
(* The walk of FileInfo::scan_and_clean, path by path (file_list.rs:38-108) *)

\* bound of the scanner model
MaxDirFiles == 3    \* files in the data directory at one time

DotDb == <<".", "d", "b">>
DotSwp == <<".", "s", "w", "p">>
DotWal == <<".", "w", "a", "l">>

\* the write-ahead log SQLite keeps next to a database in WAL mode (minute.rs:88)
SqliteWal(base) == base \o <<"-", "w", "a", "l">>
\* a swap file next to a database
SwapFile(base) == base \o DotSwp

\* the minute files of the scanner model
ScanMinutes(sep) ==
    { WalkPath(DataDirectory, 0, 0, 1, <<"a">>, sep),
      WalkPath(DataDirectory, 0, 0, 2, <<"a">>, sep) }

\* the sidecars that may lie next to the first of them
ScanSidecars(sep) ==
    { SqliteWal(WalkPath(DataDirectory, 0, 0, 1, <<"a">>, sep)),
      SwapFile(WalkPath(DataDirectory, 0, 0, 1, <<"a">>, sep)) }

\* files that are not minute files: a file name without '-', a directory that
\* is not a number, a file directly below the data directory
ScanStrays(sep) ==
    { DataDirectory \o <<sep, "0", sep, "0", sep, "3">> \o DotDb,
      DataDirectory \o <<sep, "x", sep, "0", sep, "1", "-", "a">> \o DotDb,
      DataDirectory \o <<sep, "7">> }

ScanPool(sep) == ScanMinutes(sep) \cup ScanSidecars(sep) \cup ScanStrays(sep)

\* FileInfo (file_list.rs:10-19), size_bytes left out
FileInfo(path, last_modified, parsed) ==
    [path |-> path, last_modified |-> last_modified,
     day |-> parsed.day, hour |-> parsed.hour, minute |-> parsed.minute,
     sort_key |-> sort_key(parsed.day, parsed.hour, parsed.minute, last_modified),
     unique_id |-> parsed.unique_id]

\* file_list.rs:51-56: the in-use set after a path was looked at
Unopenable(unopenable, path) ==
    IF contains(path, DotSwp) \/ contains(path, DotWal)
    THEN unopenable \cup { replace(replace(path, DotSwp), DotWal) }
    ELSE unopenable

\* file_list.rs:57-59: whether the path is passed over as in use
Skipped(unopenable, path) == replace(path, DotDb) \in unopenable

RECURSIVE InsertByKey(_, _)
\* x put behind every element whose key is not smaller than its own
InsertByKey(sorted, x) ==
    IF sorted = <<>> THEN <<x>>
    ELSE IF Head(sorted).sort_key >= x.sort_key
         THEN <<Head(sorted)>> \o InsertByKey(Tail(sorted), x)
         ELSE <<x>> \o sorted

RECURSIVE SortedFrom(_, _, _)
SortedFrom(list, i, sorted) ==
    IF i > Len(list) THEN sorted
    ELSE SortedFrom(list, i + 1, InsertByKey(sorted, list[i]))

\* files.sort_by(|a, b| b.sort_key.cmp(&a.sort_key)) (file_list.rs:95): a stable
\* sort, the larger key first
sort_files(list) == SortedFrom(list, 1, <<>>)

\* the environment: a file appears in the data directory between two scans
PutFile(path) ==
    /\ scan_pc \in {"idle", "done"}
    /\ path \in ScanPool(main_separator) \ dir
    /\ Cardinality(dir) < MaxDirFiles
    /\ dir' = dir \cup {path}
    /\ scan_pc' = "idle"
    /\ UNCHANGED <<main_separator, scan_n, walk_dir, walk_todo, recorded,
                   unopenable_files, returned, removed>>

\* the build fixes the path main_separator
Mount(sep) ==
    /\ scan_pc = "boot"
    /\ main_separator' = sep
    /\ scan_pc' = "idle"
    /\ UNCHANGED <<dir, scan_n, walk_dir, walk_todo, recorded, unopenable_files,
                   returned, removed>>

\* scan_and_clean(data_directory, n) is called (file_list.rs:38-42)
StartScan(n) ==
    /\ scan_pc \in {"idle", "done"}
    /\ scan_pc' = "walk"
    /\ scan_n' = n
    /\ walk_dir' = dir
    /\ walk_todo' = dir
    /\ recorded' = <<>>
    /\ unopenable_files' = {}
    /\ returned' = <<>>
    /\ removed' = {}
    /\ UNCHANGED <<dir, main_separator>>

\* one turn of the loop over WalkDir (file_list.rs:42-91) for a regular file,
\* whose metadata tells last_modified
VisitEntry(entry, last_modified) ==
    LET path == replace(entry, DataDirectory)
        unopenable == Unopenable(unopenable_files, path)
        parsed == parse_path(path)
    IN  /\ scan_pc = "walk"
        /\ entry \in walk_todo
        /\ walk_todo' = walk_todo \ {entry}
        /\ unopenable_files' = unopenable
        /\ IF Skipped(unopenable, path)
           THEN UNCHANGED <<recorded, scan_pc>>
           ELSE /\ recorded' = IF parsed.t = "ok"
                               THEN Append(recorded, FileInfo(path, last_modified, parsed))
                               ELSE recorded
                /\ scan_pc' = IF parsed.t = "panic" THEN "panic" ELSE "walk"
        /\ UNCHANGED <<dir, main_separator, scan_n, walk_dir, returned, removed>>

\* the end of scan_and_clean (file_list.rs:93-107): sort, cut, delete;
\* remove_fails are the paths for which fs::remove_file returns an error
FinishScan(remove_fails) ==
    LET sorted == sort_files(recorded)
        keep == Min(scan_n, Len(sorted))
        extra_files == SubSeq(sorted, keep + 1, Len(sorted))
        paths == { DataDirectory \o extra_files[i].path : i \in 1..Len(extra_files) }
    IN  /\ scan_pc = "walk"
        /\ walk_todo = {}
        /\ remove_fails \subseteq paths
        /\ recorded' = sorted
        /\ returned' = SubSeq(sorted, 1, keep)
        /\ removed' = paths
        /\ dir' = dir \ (paths \ remove_fails)
        /\ scan_pc' = "done"
        /\ UNCHANGED <<main_separator, scan_n, walk_dir, walk_todo, unopenable_files>>

ScanInit ==
    /\ dir = {}
    /\ main_separator = "?"
    /\ scan_pc = "boot"
    /\ scan_n = 0
    /\ walk_dir = {}
    /\ walk_todo = {}
    /\ recorded = <<>>
    /\ unopenable_files = {}
    /\ returned = <<>>
    /\ removed = {}

MountDir == \E sep \in Separators : Mount(sep)
Put == \E path \in ScanPool(main_separator) : PutFile(path)
Start == \E n \in Retentions : StartScan(n)
Visit == \E entry \in walk_todo : \E last_modified \in Ages : VisitEntry(entry, last_modified)
Finish == \E remove_fails \in SUBSET dir : FinishScan(remove_fails)

----------------------------------------------------------------------------
(* One query through Search::new and Search::test (search_token.rs:317-326) *)

\* bound of the query model
MaxWords == 3       \* words in a query of plain words

\* the words of the queries, and the texts they are tested on
QueryWords == { <<"d">>, <<"F">>, <<"w">> }
Texts == { <<>>, <<"D">>, <<"f">>, <<"w">>, <<"D", "f">>, <<"D", " ", "w">>,
           <<"f", "w">>, <<"D", "f", " ", "w">>,
           <<"D", "f", "w", "d">>, <<"d", "f", "w", " ", "F", "w", "d">>,
           <<"w", "f", "d">>, <<"d", "f", "w", " ", "w", "d">> }

\* no probe answered yet
NoProbe == [lambda |-> FALSE, bloom_rejects |-> {}]

\* fragments a bloom filter may hold besides those of the text
ProbeExtras == { <<"w", "f", "d">>, <<"f", "w", "d">> }

\* a word of a query with its "!" when it is negated
RenderWord(w) == IF w.negated THEN BANG \o w.word ELSE w.word

RECURSIVE Render(_)
\* the words of a query, separated by single spaces
Render(ws) ==
    IF ws = <<>> THEN <<>>
    ELSE IF Len(ws) = 1 THEN RenderWord(ws[1])
    ELSE RenderWord(ws[1]) \o <<" ">> \o Render(Tail(ws))

\* the queries of up to MaxWords plain words, each negated or not
WordLists ==
    UNION { [1..n -> [word : QueryWords, negated : BOOLEAN]] : n \in 0..MaxWords }

\* queries with operators, groups and quotes
OperatorQueries ==
    { <<"|", " ", "d">>, <<"|", " ", "f">>,
      <<"d", " ", "|", " ", "f", " ", "&", " ", "w">>,
      <<"d", " ", "&", " ", "f", " ", "|", " ", "w">>,
      <<"(", "d", ")">>, <<"(", "d", " ", "f", ")">>, <<"(", "d", " ", "|", " ", "f", ")">>,
      <<"\"", "D", " ", "w", "\"">>, <<"\"", "D", " ", "w", "\"", " ", "f">>,
      <<"(", "\"", "D", " ", "w", "\"", ")", " ", "|", " ", "f">> }

\* queries whose tokens have trigrams
TrigramQueries ==
    { <<"d", "f", "w", "d">>, <<"!", "d", "f", "w", "d">>,
      <<"d", "f", "w", " ", "|", " ", "w", "f", "d">>,
      <<"d", "f", "w", " ", "w", "f", "d">>,
      <<"\"", "d", "f", "w", " ", "w", "d", "\"">>,
      <<"!", "d", "f", "w", " ", "|", " ", "w", "f", "d">>,
      <<"(", "d", "f", "w", " ", "!", "f", "w", "d", " ", ")">>,
      <<"!", "(", "d", "f", "w", " ", "|", " ", "w", "f", "d", " ", ")">> }

\* what "!!" may stand before: a value token or a group
Negatable ==
    { <<"d">>, <<"\"", "D", " ", "w", "\"">>, <<"(", "d", ")">>,
      <<"(", "d", " ", "f", ")">>, <<"(", "d", " ", "|", " ", "f", ")">>,
      <<"(", "!", "d", ")">> }

\* queries with groups side by side, unmatched parentheses and a leading "&"
MalformedQueries ==
    { <<"(", "d", " ", ")", " ", "(", "f", " ", ")">>,
      <<"(", "d", " ", ")", " ", "(", "f", " ", ")", " ", "(", "w", " ", ")">>,
      <<"d", " ", ")">>, <<")">>, <<"(", " ", "d">>, <<"(">>, <<"d", " ", "(">>,
      <<"&", " ", "d">>, <<"&">> }

Queries ==
    { Render(ws) : ws \in WordLists } \cup OperatorQueries \cup TrigramQueries
        \cup { BANG \o x : x \in Negatable } \cup { BANG \o BANG \o x : x \in Negatable }
        \cup MalformedQueries

\* a caller has a search string and an event text
Ask(search_string, event) ==
    /\ parse_pc = "idle"
    /\ parse_pc' = "asked"
    /\ parse_query' = search_string
    /\ parse_text' = event
    /\ parse_tokens' = <<>>
    /\ parse_tree' = None
    /\ parse_result' = FALSE
    /\ parse_probe' = NoProbe

\* SearchTree::new, first line (search_token.rs:23)
Tokenize ==
    /\ parse_pc = "asked"
    /\ parse_tokens' = tokenize(parse_query)
    /\ parse_pc' = "tokenized"
    /\ UNCHANGED <<parse_query, parse_text, parse_tree, parse_result, parse_probe>>

\* SearchTree::new, second line (search_token.rs:24); a tree that is Hang or
\* Panic stands for a call that does not return one
Build ==
    /\ parse_pc = "tokenized"
    /\ parse_tree' = build_tree(parse_tokens)
    /\ parse_pc' = "built"
    /\ UNCHANGED <<parse_query, parse_text, parse_tokens, parse_result, parse_probe>>

\* Search::test (search_token.rs:324-326) on the tree that was built
Test ==
    /\ parse_pc = "built"
    /\ Returns(parse_tree)
    /\ parse_result' = test(parse_tree, parse_text)
    /\ parse_pc' = "tested"
    /\ UNCHANGED <<parse_query, parse_text, parse_tokens, parse_tree, parse_probe>>

\* the two probes on the tree: Search::lambda_test with a lambda that answers
\* for the fragments of the text, as the lambda of Minute::search does for
\* those of a batch (minute.rs:249-266), and SearchTree::bloom_test on every
\* bloom that holds the fragments of the text
Probe ==
    /\ parse_pc = "tested"
    /\ parse_probe' =
           [lambda |-> lambda_test(parse_tree, explode(parse_text)),
            bloom_rejects |->
                { extra \in SUBSET ProbeExtras :
                    ~bloom_test(parse_tree, [items |-> explode(parse_text),
                                             false_positives |-> extra]) }]
    /\ parse_pc' = "probed"
    /\ UNCHANGED <<parse_query, parse_text, parse_tokens, parse_tree, parse_result>>

ParseInit ==
    /\ parse_pc = "idle"
    /\ parse_query = <<>>
    /\ parse_text = <<>>
    /\ parse_tokens = <<>>
    /\ parse_tree = None
    /\ parse_result = FALSE
    /\ parse_probe = NoProbe

AskQuery == \E search_string \in Queries : \E event \in Texts : Ask(search_string, event)

----------------------------------------------------------------------------
(* One tick of the dispatcher, thread by thread: ShardedMinute::write,       *)
(* minute.rs:328-378                                                         *)

\* MAX_WRITE_THREADS, as main.rs reads it when the variable is not set
max_write_threads == 2

\* the sizes of the buffers of a tick: around each multiple of the chunk size
TickLens ==
    { k * MAX_WRITE_PER_SECOND_PER_THREAD + d : k \in 0..2, d \in {0, 1} }
        \cup { k * MAX_WRITE_PER_SECOND_PER_THREAD - 1 : k \in 1..2 }

\* mutant of split_data: the split point is one too low
split_data_OneMore(len) ==
    IF len < MAX_WRITE_PER_SECOND_PER_THREAD
    THEN [lo |-> 1, hi |-> len]
    ELSE [lo |-> len - MAX_WRITE_PER_SECOND_PER_THREAD, hi |-> len]

\* minute.rs:340-347: the events split_data takes from a buffer holding the
\* events 1..len: all of them, or the last MAX_WRITE_PER_SECOND_PER_THREAD
split_data(len) ==
    IF len < MAX_WRITE_PER_SECOND_PER_THREAD
    THEN [lo |-> 1, hi |-> len]
    ELSE [lo |-> len - MAX_WRITE_PER_SECOND_PER_THREAD + 1, hi |-> len]

\* the minute file a thread of this tick opens (minute.rs:358-360)
ThreadPath(thread) ==
    minutepath(DataDirectory, DayOf(ClockStart), HourOf(ClockStart), MinuteOf(ClockStart),
               thread.unique_id)

\* mutant of Joinable: join returns at once
Joinable_Always(thread) == TRUE

\* thread.join() (minute.rs:371-373) returns once the thread has ended
Joinable(thread) == thread.pc = "done"

\* ShardedMinute::write is called with a buffer of len events (minute.rs:329-336)
BeginWrite(len) ==
    /\ tick_pc = "idle"
    /\ tick_pc' = "spawn"
    /\ tick_len' = len
    /\ tick_left' = len
    /\ tick_n' = 0
    /\ tick_threads' = <<>>
    /\ tick_joined' = 0

\* one iteration of the loop at minute.rs:338-370: a chunk is split off, the
\* ticket registered, the thread spawned
SpawnThread ==
    LET n_threads == (tick_len \div MAX_WRITE_PER_SECOND_PER_THREAD) + 1
        taken == split_data(tick_left)
    IN  /\ tick_pc = "spawn"
        /\ tick_n < n_threads
        /\ tick_left' = taken.lo - 1
        /\ tick_threads' = Append(tick_threads,
               [node_id |-> tick_n, unique_id |-> shard_unique_id(MachineId, tick_n),
                split_data |-> taken, pc |-> "spawned", wrote |-> 0])
        /\ tick_n' = tick_n + 1
        /\ tick_pc' = IF tick_n + 1 = n_threads THEN "join" ELSE "spawn"
        /\ UNCHANGED <<tick_len, tick_joined>>

\* a spawned thread opens its minute file (minute.rs:358-360)
ThreadOpen(i) ==
    /\ tick_threads[i].pc = "spawned"
    /\ tick_threads' = [tick_threads EXCEPT ![i].pc = "opened"]
    /\ UNCHANGED <<tick_pc, tick_len, tick_left, tick_n, tick_joined>>

\* the thread hands its chunk to write_second, when it has one, and ends
\* (minute.rs:362-367)
ThreadWrite(i) ==
    /\ tick_threads[i].pc = "opened"
    /\ tick_threads' =
           [tick_threads EXCEPT ![i].pc = "done",
                                ![i].wrote = ChunkLen(tick_threads[i].split_data)]
    /\ UNCHANGED <<tick_pc, tick_len, tick_left, tick_n, tick_joined>>

\* the loop at minute.rs:371-373 joins the threads in the order they were spawned
JoinThread ==
    /\ tick_pc = "join"
    /\ tick_joined < Len(tick_threads)
    /\ Joinable(tick_threads[tick_joined + 1])
    /\ tick_joined' = tick_joined + 1
    /\ tick_pc' = IF tick_joined + 1 = Len(tick_threads) THEN "seal" ELSE "join"
    /\ UNCHANGED <<tick_len, tick_left, tick_n, tick_threads>>

\* self.seal() (minute.rs:375), run by the thread that called write
SealAfterJoin ==
    /\ tick_pc = "seal"
    /\ tick_pc' = "idle"
    /\ UNCHANGED <<tick_len, tick_left, tick_n, tick_threads, tick_joined>>

TickInit ==
    /\ tick_pc = "idle"
    /\ tick_len = 0
    /\ tick_left = 0
    /\ tick_n = 0
    /\ tick_threads = <<>>
    /\ tick_joined = 0

Tick == \E len \in TickLens : BeginWrite(len)
Open == \E i \in 1..Len(tick_threads) : ThreadOpen(i)
WriteChunk == \E i \in 1..Len(tick_threads) : ThreadWrite(i)

----------------------------------------------------------------------------
(* One call of Minute::explode on an empty set (minute.rs:124-139) *)

\* bound of the texts
MaxText == 5        \* characters in a text handed to explode

\* the characters of the texts: two cases of one letter apart, and a blank
TextChars == {"d", "D", "w", " "}

RECURSIVE TextsOfLen(_)
\* the texts of n characters
TextsOfLen(n) ==
    IF n = 0 THEN { <<>> }
    ELSE { Append(t, c) : t \in TextsOfLen(n - 1), c \in TextChars }

ExplodeTexts == UNION { TextsOfLen(n) : n \in 0..MaxText }

\* Minute::explode(&mut fragments, data) with fragments empty
Explode(text) ==
    /\ explode_pc = "idle"
    /\ explode_pc' = "done"
    /\ explode_data' = text
    /\ explode_fragments' = explode(text)

ExplodeInit ==
    /\ explode_pc = "idle"
    /\ explode_data = <<>>
    /\ explode_fragments = {}

ExplodeText == \E text \in ExplodeTexts : Explode(text)

----------------------------------------------------------------------------
(* The locks of MinuteDB (minute_db.rs:12-17): db and bloom_cache each sit in
   an RwLock, every minute in a Mutex. Searches run on blocking workers, any
   number at a time; read_loop is the one caller of update. The steps here
   are those at which a call takes or drops a lock; an update that panics is
   the matter of the reader above (locks_poisoned) *)

\* bound of the lock model
MaxSearchers == 2       \* calls of search that may run at the same time

Searchers == 1..MaxSearchers
MapLocks == {"db", "bloom_cache"}

\* MinuteDB::search takes self.db.read(), then self.bloom_cache.read()
\* (minute_db.rs:38-39)
search_order == <<"db", "bloom_cache">>

\* mutant of update_order: bloom_cache is locked first
update_order_Reversed == <<"bloom_cache", "db">>

\* MinuteDB::update takes self.db.write(), then self.bloom_cache.write()
\* (minute_db.rs:72-73)
update_order == <<"db", "bloom_cache">>

\* the lock a search at this point of its call is about to take or to drop
SearchLockAt(at) ==
    CASE at = "read_1" -> search_order[1]
      [] at = "read_2" -> search_order[2]
      [] at = "drop_2" -> search_order[2]
      [] at = "drop_1" -> search_order[1]

\* the same for the update
UpdateLockAt(at) ==
    CASE at = "write_1" -> update_order[1]
      [] at = "write_2" -> update_order[2]
      [] at = "drop_2" -> update_order[2]
      [] at = "drop_1" -> update_order[1]

\* the update waits in write() on this lock
WriterWaits(name) ==
    update_pc \in {"write_1", "write_2"} /\ UpdateLockAt(update_pc) = name

\* RwLock::read returns: no writer holds the lock and none waits for it (a
\* waiting writer goes before new readers)
ReadLockable(name) == ~map_locks[name].writer /\ ~WriterWaits(name)

\* RwLock::write returns: no reader and no writer holds the lock
WriteLockable(name) == ~map_locks[name].writer /\ map_locks[name].readers = {}

\* a request reaches search_endpoint, which runs MinuteDB::search on a
\* blocking worker (main.rs:140-153, minute_db.rs:62-69)
search_call(s) ==
    /\ search_pc[s] = "idle"
    /\ search_pc' = [search_pc EXCEPT ![s] = "read_1"]
    /\ UNCHANGED <<update_pc, map_locks, minute_lock, minute_cached>>

\* self.db.read().unwrap(), then self.bloom_cache.read().unwrap()
\* (minute_db.rs:38-39)
search_read(s) ==
    /\ search_pc[s] \in {"read_1", "read_2"}
    /\ LET name == SearchLockAt(search_pc[s])
       IN  /\ ReadLockable(name)
           /\ map_locks' = [map_locks EXCEPT ![name].readers = @ \cup {s}]
    /\ search_pc' = [search_pc EXCEPT ![s] = IF @ = "read_1" THEN "read_2" ELSE "iterate"]
    /\ UNCHANGED <<update_pc, minute_lock, minute_cached>>

\* the loop over bloom_cache (minute_db.rs:45-48): a minute whose bloom
\* passes is looked up in db and searched; with none, the loop is over
search_iterate(s, passes) ==
    /\ search_pc[s] = "iterate"
    /\ search_pc' = [search_pc EXCEPT ![s] =
                        IF minute_cached /\ passes THEN "lock_minute" ELSE "drop_2"]
    /\ UNCHANGED <<update_pc, map_locks, minute_lock, minute_cached>>

\* search_within_minute: minute.lock() (minute_db.rs:32)
search_lock_minute(s) ==
    /\ search_pc[s] = "lock_minute"
    /\ minute_lock = {}
    /\ minute_lock' = {s}
    /\ search_pc' = [search_pc EXCEPT ![s] = "minute_search"]
    /\ UNCHANGED <<update_pc, map_locks, minute_cached>>

\* search_within_minute: minute.search(&search) reads the minute file and
\* returns, which drops the guard of the Mutex (minute_db.rs:33-34); the
\* loop and the truncate that follow take no lock (minute_db.rs:49-59)
search_minute(s) ==
    /\ search_pc[s] = "minute_search"
    /\ minute_lock' = minute_lock \ {s}
    /\ search_pc' = [search_pc EXCEPT ![s] = "drop_2"]
    /\ UNCHANGED <<update_pc, map_locks, minute_cached>>

\* search returns (minute_db.rs:60): its guards are dropped in the reverse
\* of the order of their declaration, bloom_cache first
search_drop(s) ==
    /\ search_pc[s] \in {"drop_2", "drop_1"}
    /\ LET name == SearchLockAt(search_pc[s])
       IN  map_locks' = [map_locks EXCEPT ![name].readers = @ \ {s}]
    /\ search_pc' = [search_pc EXCEPT ![s] = IF @ = "drop_2" THEN "drop_1" ELSE "idle"]
    /\ UNCHANGED <<update_pc, minute_lock, minute_cached>>

\* read_loop calls update after a scan (minute_db.rs:120-122)
UpdateCall ==
    /\ update_pc = "idle"
    /\ update_pc' = "write_1"
    /\ UNCHANGED <<search_pc, map_locks, minute_lock, minute_cached>>

\* self.db.write().unwrap(), then self.bloom_cache.write().unwrap()
\* (minute_db.rs:72-73)
UpdateWrite ==
    /\ update_pc \in {"write_1", "write_2"}
    /\ LET name == UpdateLockAt(update_pc)
       IN  /\ WriteLockable(name)
           /\ map_locks' = [map_locks EXCEPT ![name].writer = TRUE]
    /\ update_pc' = IF update_pc = "write_1" THEN "write_2" ELSE "loops"
    /\ UNCHANGED <<search_pc, minute_lock, minute_cached>>

\* the two loops of update (minute_db.rs:79-104) under both write guards:
\* the maps lose or gain the minute, or stay as they are
update_maps(cached) ==
    /\ update_pc = "loops"
    /\ minute_cached' = cached
    /\ update_pc' = "drop_2"
    /\ UNCHANGED <<search_pc, map_locks, minute_lock>>

\* update returns (minute_db.rs:108, or an Err before): its guards are
\* dropped, that of the lock taken last first
UpdateDrop ==
    /\ update_pc \in {"drop_2", "drop_1"}
    /\ LET name == UpdateLockAt(update_pc)
       IN  map_locks' = [map_locks EXCEPT ![name].writer = FALSE]
    /\ update_pc' = IF update_pc = "drop_2" THEN "drop_1" ELSE "idle"
    /\ UNCHANGED <<search_pc, minute_lock, minute_cached>>

\* MinuteDB::new: empty maps, no lock held (minute_db.rs:21-29)
LockInit ==
    /\ search_pc = [s \in Searchers |-> "idle"]
    /\ update_pc = "idle"
    /\ map_locks = [name \in MapLocks |-> [readers |-> {}, writer |-> FALSE]]
    /\ minute_lock = {}
    /\ minute_cached = FALSE

SearchCall == \E s \in Searchers : search_call(s)
SearchRead == \E s \in Searchers : search_read(s)
SearchIterate == \E s \in Searchers : \E passes \in BOOLEAN : search_iterate(s, passes)
SearchLockMinute == \E s \in Searchers : search_lock_minute(s)
SearchMinute == \E s \in Searchers : search_minute(s)
SearchDrop == \E s \in Searchers : search_drop(s)
UpdateMaps == \E cached \in BOOLEAN : update_maps(cached)

----------------------------------------------------------------------------
(* Specifications: one per component, the others at rest *)

Init == MinuteInit /\ DispatchInit /\ PathInit /\ ReaderInit /\ ScanInit /\ ParseInit /\ TickInit /\ ExplodeInit /\ LockInit

\* the minute store: any sequence of write_second, seal and search on one minute
Next ==
    \/ WriteSecond /\ UNCHANGED <<dispatchVars, pathVars, readerVars, scanVars, parseVars, tickVars, explodeVars, lockVars>>
    \/ Seal /\ UNCHANGED <<dispatchVars, pathVars, readerVars, scanVars, parseVars, tickVars, explodeVars, lockVars>>
    \/ Search /\ UNCHANGED <<dispatchVars, pathVars, readerVars, scanVars, parseVars, tickVars, explodeVars, lockVars>>

Spec == Init /\ [][Next]_vars

\* the write dispatcher: any sequence of ticks under a clock that never runs back
NextDispatch ==
    \/ Write /\ UNCHANGED <<minuteVars, pathVars, readerVars, scanVars, parseVars, tickVars, explodeVars, lockVars>>
    \/ SealTicket /\ UNCHANGED <<minuteVars, pathVars, readerVars, scanVars, parseVars, tickVars, explodeVars, lockVars>>

SpecDispatch == Init /\ [][NextDispatch]_vars

\* one minute file: created by Minute::new, then read back by the scanner
NextPath ==
    \/ CreateFile /\ UNCHANGED <<minuteVars, dispatchVars, readerVars, scanVars, parseVars, tickVars, explodeVars, lockVars>>
    \/ ScanPath /\ UNCHANGED <<minuteVars, dispatchVars, readerVars, scanVars, parseVars, tickVars, explodeVars, lockVars>>

SpecPath == Init /\ [][NextPath]_vars

\* the reader: read_loop scanning and updating, the writer making and sealing
\* files, and searches arriving at any moment
NextReader ==
    \/ NewDB /\ UNCHANGED <<minuteVars, dispatchVars, pathVars, scanVars, parseVars, tickVars, explodeVars, lockVars>>
    \/ Create /\ UNCHANGED <<minuteVars, dispatchVars, pathVars, scanVars, parseVars, tickVars, explodeVars, lockVars>>
    \/ SealMinute /\ UNCHANGED <<minuteVars, dispatchVars, pathVars, scanVars, parseVars, tickVars, explodeVars, lockVars>>
    \/ ScanAndClean /\ UNCHANGED <<minuteVars, dispatchVars, pathVars, scanVars, parseVars, tickVars, explodeVars, lockVars>>
    \/ Update /\ UNCHANGED <<minuteVars, dispatchVars, pathVars, scanVars, parseVars, tickVars, explodeVars, lockVars>>
    \/ SearchDB /\ UNCHANGED <<minuteVars, dispatchVars, pathVars, scanVars, parseVars, tickVars, explodeVars, lockVars>>

SpecReader == Init /\ [][NextReader]_vars

\* storage works
NoFault == [key |-> CHOOSE id \in ReaderIds : TRUE, kind |-> "none"]

\* read_loop goes round for as long as its thread lives: the scan that is due
\* is made, the update that is due is made (minute_db.rs:116-142), and storage
\* does not fail in every pass from some pass on
ReaderFairness ==
    /\ WF_readerVars(ScanAndClean)
    /\ WF_readerVars(Update)
    /\ SF_readerVars(\E order \in Orders(scan_files) : update(order, NoFault))

SpecReaderFair == SpecReader /\ ReaderFairness

\* the scanner: files appear in the data directory, and scans walk it
NextScan ==
    \/ MountDir /\ UNCHANGED <<minuteVars, dispatchVars, pathVars, readerVars, parseVars, tickVars, explodeVars, lockVars>>
    \/ Put /\ UNCHANGED <<minuteVars, dispatchVars, pathVars, readerVars, parseVars, tickVars, explodeVars, lockVars>>
    \/ Start /\ UNCHANGED <<minuteVars, dispatchVars, pathVars, readerVars, parseVars, tickVars, explodeVars, lockVars>>
    \/ Visit /\ UNCHANGED <<minuteVars, dispatchVars, pathVars, readerVars, parseVars, tickVars, explodeVars, lockVars>>
    \/ Finish /\ UNCHANGED <<minuteVars, dispatchVars, pathVars, readerVars, parseVars, tickVars, explodeVars, lockVars>>

SpecScan == Init /\ [][NextScan]_vars

\* the query parser: a search string is tokenized, built into a tree and tested
NextParse ==
    \/ AskQuery /\ UNCHANGED <<minuteVars, dispatchVars, pathVars, readerVars, scanVars, tickVars, explodeVars, lockVars>>
    \/ Tokenize /\ UNCHANGED <<minuteVars, dispatchVars, pathVars, readerVars, scanVars, tickVars, explodeVars, lockVars>>
    \/ Build /\ UNCHANGED <<minuteVars, dispatchVars, pathVars, readerVars, scanVars, tickVars, explodeVars, lockVars>>
    \/ Test /\ UNCHANGED <<minuteVars, dispatchVars, pathVars, readerVars, scanVars, tickVars, explodeVars, lockVars>>
    \/ Probe /\ UNCHANGED <<minuteVars, dispatchVars, pathVars, readerVars, scanVars, tickVars, explodeVars, lockVars>>

SpecParse == Init /\ [][NextParse]_vars

\* one tick of the dispatcher: the threads it spawns run as they are scheduled
NextTick ==
    \/ Tick /\ UNCHANGED <<minuteVars, dispatchVars, pathVars, readerVars, scanVars, parseVars, explodeVars, lockVars>>
    \/ SpawnThread /\ UNCHANGED <<minuteVars, dispatchVars, pathVars, readerVars, scanVars, parseVars, explodeVars, lockVars>>
    \/ Open /\ UNCHANGED <<minuteVars, dispatchVars, pathVars, readerVars, scanVars, parseVars, explodeVars, lockVars>>
    \/ WriteChunk /\ UNCHANGED <<minuteVars, dispatchVars, pathVars, readerVars, scanVars, parseVars, explodeVars, lockVars>>
    \/ JoinThread /\ UNCHANGED <<minuteVars, dispatchVars, pathVars, readerVars, scanVars, parseVars, explodeVars, lockVars>>
    \/ SealAfterJoin /\ UNCHANGED <<minuteVars, dispatchVars, pathVars, readerVars, scanVars, parseVars, explodeVars, lockVars>>

SpecTick == Init /\ [][NextTick]_vars

\* the fragment extractor on one text
NextExplode ==
    ExplodeText /\ UNCHANGED <<minuteVars, dispatchVars, pathVars, readerVars, scanVars, parseVars, tickVars, lockVars>>

SpecExplode == Init /\ [][NextExplode]_vars

\* the locks of MinuteDB: searches arrive at any moment while read_loop updates
NextLocks ==
    \/ SearchCall /\ UNCHANGED <<minuteVars, dispatchVars, pathVars, readerVars, scanVars, parseVars, tickVars, explodeVars>>
    \/ SearchRead /\ UNCHANGED <<minuteVars, dispatchVars, pathVars, readerVars, scanVars, parseVars, tickVars, explodeVars>>
    \/ SearchIterate /\ UNCHANGED <<minuteVars, dispatchVars, pathVars, readerVars, scanVars, parseVars, tickVars, explodeVars>>
    \/ SearchLockMinute /\ UNCHANGED <<minuteVars, dispatchVars, pathVars, readerVars, scanVars, parseVars, tickVars, explodeVars>>
    \/ SearchMinute /\ UNCHANGED <<minuteVars, dispatchVars, pathVars, readerVars, scanVars, parseVars, tickVars, explodeVars>>
    \/ SearchDrop /\ UNCHANGED <<minuteVars, dispatchVars, pathVars, readerVars, scanVars, parseVars, tickVars, explodeVars>>
    \/ UpdateCall /\ UNCHANGED <<minuteVars, dispatchVars, pathVars, readerVars, scanVars, parseVars, tickVars, explodeVars>>
    \/ UpdateWrite /\ UNCHANGED <<minuteVars, dispatchVars, pathVars, readerVars, scanVars, parseVars, tickVars, explodeVars>>
    \/ UpdateMaps /\ UNCHANGED <<minuteVars, dispatchVars, pathVars, readerVars, scanVars, parseVars, tickVars, explodeVars>>
    \/ UpdateDrop /\ UNCHANGED <<minuteVars, dispatchVars, pathVars, readerVars, scanVars, parseVars, tickVars, explodeVars>>

SpecLocks == Init /\ [][NextLocks]_vars

\* a thread that can take a step takes one, and a thread that waits for a lock
\* gets it when the lock is free again and again: the lock wakes its waiters,
\* a search ends, and read_loop sleeps between two updates
LockFairness ==
    /\ \A s \in Searchers :
           /\ SF_lockVars(search_read(s))
           /\ WF_lockVars(\E passes \in BOOLEAN : search_iterate(s, passes))
           /\ SF_lockVars(search_lock_minute(s))
           /\ WF_lockVars(search_minute(s))
           /\ WF_lockVars(search_drop(s))
    /\ SF_lockVars(UpdateWrite)
    /\ WF_lockVars(UpdateMaps)
    /\ WF_lockVars(UpdateDrop)

SpecLocksFair == SpecLocks /\ LockFairness

----------------------------------------------------------------------------
(* Claims about the minute store, checked under Spec *)

\* the stored rows whose test string "<host> <message>" satisfies the query
MatchingRows(tree) == { r \in log : test(tree, SearchString(r)) }

\* C1: on a sealed minute, Minute.search(q) returns every stored row whose test
\* string satisfies q.test, and the bloom probe of a minute sealed after its
\* last write does not reject a minute that holds such a row.
C1_SearchComplete ==
    (last_call.op = "search" /\ is_sealed) =>
        LET tree == Search_new(query)
        IN  /\ \A r \in MatchingRows(tree) : LogOf(r) \in results
            /\ (~write_after_seal /\ MatchingRows(tree) # {})
                   => bloom_test(tree, get_bloom_filter)

\* C2: every Log a search returns is a stored row of the minute whose test
\* string "<host> <message>" satisfies the query's exact test.
C2_SearchPrecise ==
    last_call.op = "search" =>
        \A l \in results :
            \E r \in log : LogOf(r) = l /\ test(Search_new(query), SearchString(r))

\* C2 witness: a search returned some rows and left out a row of a batch the
\* fragment probe let through
C2_Witness ==
    /\ last_call.op = "search"
    /\ results # {}
    /\ \E r \in log : /\ r.batch \in SurvivingBatches(Search_new(query))
                      /\ LogOf(r) \notin results

\* C3: after write_second calls followed by seal, every trigram of every written
\* message is reported present by the bloom get_bloom_filter returns.
C3_BloomSuperset ==
    (is_sealed /\ ~write_after_seal) =>
        \A r \in log : \A f \in explode(r.log) : bloom_contains(get_bloom_filter, f)

\* C3 witness: two batches with different messages were written and then sealed
C3_Witness ==
    /\ is_sealed
    /\ ~write_after_seal
    /\ Cardinality(ListBatches) = 2
    /\ \E r, o \in log : r.batch < o.batch /\ explode(r.log) # explode(o.log)

----------------------------------------------------------------------------
(* Claims about the write dispatcher, under SpecDispatch *)

\* C5: each minute file the dispatcher writes is sealed at most once: its
\* bloom table never holds more than one row.
C5_SealedOnce ==
    \A path \in DOMAIN shard_files : shard_files[path].blooms <= 1

\* C6: under a clock that never runs back, the dispatcher applies no
\* write_second to a minute file after Minute::seal was applied to that file.
C6_NoWriteAfterSeal ==
    \A path \in DOMAIN shard_files : ~shard_files[path].write_after_seal

\* the second tick has just written the file of its minute, after the first
\* tick wrote and then sealed the file of the minute before
C6_Witness ==
    /\ n_ticks = 2 /\ dispatch_pc = "seal" /\ pending = tickets
    /\ \E node \in tickets :
          /\ ~ShouldSeal(node, DayOf(clock_s), HourOf(clock_s), MinuteOf(clock_s))
          /\ shard_files[TicketPath(node)].events > 0
          /\ shard_files[TicketPath(node)].blooms = 0
    /\ \E node \in tickets :
          /\ ShouldSeal(node, DayOf(clock_s), HourOf(clock_s), MinuteOf(clock_s))
          /\ shard_files[TicketPath(node)].events > 0
          /\ shard_files[TicketPath(node)].blooms > 0

----------------------------------------------------------------------------
(* Claims about paths and minute ids, under SpecPath *)

\* C9: the MinuteId the scanner derives from the path of a file made by
\* Minute::new(day, hour, minute, shard_id, dir) is (day, hour, minute,
\* shard_id), for the dispatcher's shard ids "<machine_id>-<n>" too.
C9_RoundTrip ==
    scanned # NoFile => (scanned.t = "ok" /\ scanned.id = created.id)

----------------------------------------------------------------------------
(* Claims about the reader, under SpecReader *)

\* C4: MinuteDB::update inserts into db and bloom_cache only ids whose minute
\* file is sealed at that moment; a minute reporting is_sealed() = false is
\* never inserted.
C4_OnlySealedLoaded ==
    [][\A id \in (db' \ db) \cup (bloom_cache' \ bloom_cache) :
           id \in DOMAIN disk /\ disk[id].sealed]_vars

\* update has run over a list holding a sealed file, which it loaded, and an
\* unsealed one, which it passed over
C4_Witness ==
    /\ reader_pc = "scan"
    /\ \E id \in scan_files \cap db : disk[id].sealed
    /\ \E id \in scan_files \ db : id \in DOMAIN disk /\ ~disk[id].sealed

\* C7: in every state of the read loop, each MinuteId held in the Minute DB
\* has its minute file on disk, and the file is sealed.
C7_DbFilesExist ==
    \A id \in db : id \in DOMAIN disk /\ disk[id].sealed

\* C8: MinuteDB::search never returns an error: a minute whose search fails
\* is skipped, and the caller gets the rows of the minutes searched without
\* failure (here: those of the first such minute lead the list).
C8_SearchSkipsFailures ==
    search_out # Idle =>
        LET searched == (bloom_cache \cap search_in.bloom_passes) \ search_in.fails
        IN  /\ search_out.t = "Ok"
            /\ searched # {} =>
                  /\ search_endpoint(search_out) # <<>>
                  /\ search_endpoint(search_out)[1].minute = Ascending(searched)[1]

\* C10: the files scan_and_clean deletes are the oldest: none of them has a
\* later (day, hour, minute) than a file it keeps, whatever the files' ages.
C10_EvictsOldest ==
    reader_pc = "update" =>
        \A d \in scan_deleted : \A k \in scan_files :
            ~(\/ d.day > k.day
              \/ d.day = k.day /\ d.hour > k.hour
              \/ d.day = k.day /\ d.hour = k.hour /\ d.minute > k.minute)

----------------------------------------------------------------------------
(* Claims about the scanner, under SpecScan *)

\* C11: scan_and_clean(dir, n) returns at most n entries, sorted by sort_key
\* descending, and every recorded file beyond the first n is gone from disk
\* when it returns.
C11_ScanTruncates ==
    scan_pc = "done" =>
        /\ Len(returned) <= scan_n
        /\ \A i, j \in 1..Len(returned) :
               i < j => returned[i].sort_key >= returned[j].sort_key
        /\ \A i \in (Len(returned) + 1)..Len(recorded) :
               DataDirectory \o recorded[i].path \notin dir

\* C12: a scan neither returns nor deletes an entry for a minute file whose
\* write-ahead-log or swap sidecar lies in the directory, nor an entry for a
\* sidecar, in whatever order the walk meets them.
C12_InUseSkipped ==
    scan_pc = "done" =>
        LET touched == { DataDirectory \o recorded[i].path : i \in 1..Len(recorded) }
        IN  /\ touched \cap ScanSidecars(main_separator) = {}
            /\ \A base \in ScanMinutes(main_separator) :
                   ({SqliteWal(base), SwapFile(base)} \cap walk_dir # {})
                       => base \notin touched

\* C13: a file whose path does not have the shape
\* <day>/<hour>/<minute>-<shard_id>.db is passed over: the scan completes and
\* records the well-formed minute files that are not in use.
C13_StraysSkipped ==
    /\ scan_pc # "panic"
    /\ scan_pc = "done" =>
           LET touched == { DataDirectory \o recorded[i].path : i \in 1..Len(recorded) }
           IN  \A base \in ScanMinutes(main_separator) \cap walk_dir :
                   ({SqliteWal(base), SwapFile(base)} \cap walk_dir = {})
                       => base \in touched

----------------------------------------------------------------------------
(* Claims about the query parser, checked under SpecParse *)

\* the text contains the word, case-insensitively
Has(event, word) == contains(to_lowercase(event), to_lowercase(word))

\* C14: a query that starts with "|" is parsed to a tree (the parse returns),
\* and that tree tests every text as the tree of the query without the "|"
C14_LeadingPipeIgnored ==
    \A x \in {<<"d">>, <<"f">>} :
        (parse_pc = "built" /\ parse_query = PIPE \o <<" ">> \o x) =>
            /\ Returns(parse_tree)
            /\ \A event \in Texts : test(parse_tree, event) = test(Search_new(x), event)

\* C15: "|" and "&" fold left to right with equal precedence: "d | f & w"
\* tests as (d or f) and w, and "d & f | w" tests as (d and f) or w
C15_LeftFold ==
    parse_pc = "tested" =>
        /\ parse_query = <<"d", " ", "|", " ", "f", " ", "&", " ", "w">> =>
               parse_result = ((Has(parse_text, <<"d">>) \/ Has(parse_text, <<"f">>))
                                  /\ Has(parse_text, <<"w">>))
        /\ parse_query = <<"d", " ", "&", " ", "f", " ", "|", " ", "w">> =>
               parse_result = ((Has(parse_text, <<"d">>) /\ Has(parse_text, <<"f">>))
                                  \/ Has(parse_text, <<"w">>))

\* C16: a query of whitespace-separated words, each negated with "!" or not,
\* in any order, tests true exactly on the texts that contain every word
\* that is not negated and no word that is negated
C16_WordsAndNegations ==
    parse_pc = "tested" =>
        \A ws \in WordLists :
            parse_query = Render(ws) =>
                parse_result = (\A i \in 1..Len(ws) :
                                    Has(parse_text, ws[i].word) = ~ws[i].negated)

\* C16 witness: a tested query of three words, a negated one between two
\* plain ones, on a text where the negated word decides the answer
C16_Witness ==
    /\ parse_pc = "tested"
    /\ parse_query = <<"d", " ", "!", "w", " ", "F">>
    /\ parse_text = <<"D", "f", " ", "w">>
    /\ parse_result = FALSE
    /\ test(Search_new(<<"d", " ", "F">>), parse_text)

\* the tokens the tokenizer is to emit for a search string
TokenizeCases ==
    { [query |-> <<"(", "d", ")">>, tokens |-> <<LP, <<"d">>, RP>>],
      [query |-> <<"(", "d", " ", "f", ")">>, tokens |-> <<LP, <<"d">>, <<"f">>, RP>>],
      [query |-> <<"(", "d", " ", "|", " ", "f", ")">>,
       tokens |-> <<LP, <<"d">>, PIPE, <<"f">>, RP>>],
      [query |-> <<"(", "!", "d", ")">>, tokens |-> <<LP, BANG, <<"d">>, RP>>],
      [query |-> <<"!", "(", "d", ")">>, tokens |-> <<BANG, LP, <<"d">>, RP>>],
      [query |-> <<"\"", "D", " ", "w", "\"">>, tokens |-> << <<"d", " ", "w">> >>],
      [query |-> <<"\"", "D", " ", "w", "\"", " ", "f">>,
       tokens |-> << <<"d", " ", "w">>, <<"f">> >>],
      [query |-> <<"(", "\"", "D", " ", "w", "\"", ")", " ", "|", " ", "f">>,
       tokens |-> <<LP, <<"d", " ", "w">>, RP, PIPE, <<"f">> >>],
      [query |-> <<"d", " ", "!", "w", " ", "F">>,
       tokens |-> << <<"d">>, BANG, <<"w">>, <<"f">> >>] }

\* C17: the tokens come in source order: a quoted run is one lowercased token
\* with its inner whitespace, "(", ")", "!" and "|" are tokens of their own,
\* and a word that stands directly before ")" is emitted before the ")"
C17_TokensInSourceOrder ==
    parse_pc \in {"tokenized", "built", "tested"} =>
        \A c \in TokenizeCases : parse_query = c.query => parse_tokens = c.tokens

\* C18: "!!" before a value token or a group cancels: the query tests every
\* text as the query without the "!!"
C18_DoubleNegationCancels ==
    \A x \in Negatable :
        (parse_pc = "built" /\ parse_query = BANG \o BANG \o x) =>
            /\ Returns(parse_tree)
            /\ Returns(Search_new(x))
            /\ \A event \in Texts : test(parse_tree, event) = test(Search_new(x), event)

\* C18 witness: a doubly negated group was parsed and tested true on a text
\* that the singly negated group rejects
C18_Witness ==
    /\ parse_pc = "tested"
    /\ parse_query = <<"!", "!", "(", "d", " ", "f", ")">>
    /\ parse_text = <<"D", "f">>
    /\ parse_result = TRUE
    /\ ~test(Search_new(<<"!", "(", "d", " ", "f", ")">>), parse_text)

----------------------------------------------------------------------------
(* Claims about the search across minutes, checked under SpecReader *)

\* the minutes of a result list, in the order of the list
MinutesOf(list) == [i \in 1..Len(list) |-> list[i].minute]

\* the minutes a search could take rows from: cached bloom passes, file open
Matching == bloom_cache \cap search_in.bloom_passes \cap db

\* C19: MinuteDB::search returns at most 1000 rows, and no minute is searched
\* after the rows gathered have exceeded 30
C19_SearchBounded ==
    (search_out # Idle /\ search_out.t = "Ok") =>
        /\ RowCount(search_out.results) <= results_max
        /\ \A i \in 1..(Len(search_out.results) - 1) :
               RowCount(SubSeq(search_out.results, 1, i)) <= results_min

\* C19 witness: a search that met 1001 rows in its first minute returned 1000
\* of them and left a second matching minute unsearched
C19_Witness ==
    /\ search_out # Idle
    /\ search_out.t = "Ok"
    /\ Cardinality(Matching) = 2
    /\ search_in.fails = {}
    /\ search_in.hits[Ascending(Matching)[1]] > results_max
    /\ Len(search_out.results) = 1
    /\ RowCount(search_out.results) = results_max

\* C20: the rows come newest minute first, and when the soft minimum stops
\* the scan, the minutes left unsearched are older than every minute searched
C20_NewestFirst ==
    (search_out # Idle /\ search_out.t = "Ok") =>
        LET found == MinutesOf(search_out.results)
        IN  /\ \A i, j \in 1..Len(found) : i < j => MinuteIdLess(found[j], found[i])
            /\ \A left \in Matching \ { found[i] : i \in 1..Len(found) } :
                   \A i \in 1..Len(found) : MinuteIdLess(left, found[i])

----------------------------------------------------------------------------
(* Claims about the tables of one minute, checked under Spec *)

\* a step of the minute that is a call of op
Called(op) == n_calls' # n_calls /\ last_call'.op = op

\* C21: is_sealed is true exactly when the bloom table holds a row: it is
\* false on a fresh minute, no write_second changes it, it is true after a
\* seal, and on a sealed minute get_bloom_filter returns a stored bloom
C21_SealedIffBloomRow ==
    /\ ~is_sealed
    /\ [][ /\ Called("write_second") => (is_sealed' = is_sealed)
           /\ (Called("seal") /\ last_call'.ok) => is_sealed'
           /\ is_sealed' = (bloom' # {})
           /\ is_sealed' => get_bloom_filter' \in { row.bloom : row \in bloom' }
         ]_vars

\* C21 witness: two batches were written and the minute was then sealed
C21_Witness ==
    /\ last_call = [op |-> "seal", ok |-> TRUE]
    /\ is_sealed
    /\ Cardinality(ListBatches) = 2
    /\ get_bloom_filter.items # {}

\* C22: no two log rows of the minute share an id, also after write_second
\* calls that fall in the same millisecond
C22_UniqueIds ==
    \A r, o \in log : r.id = o.id => r = o

\* C22 witness: a write_second came in the millisecond of a stored batch
\* and was refused
C22_Witness ==
    /\ last_call = [op |-> "write_second", ok |-> FALSE]
    /\ (now_us \div UsPerMs) \in ListBatches
    /\ Cardinality(log) = 2

\* C23: write_second is all-or-nothing: a call that returns an error leaves
\* the tables as they were, and a call that returns Ok has stored every row
\* and every fragment of its batch
C23_AllOrNothing ==
    [][ Called("write_second") =>
          \/ /\ ~last_call'.ok
             /\ log' = log /\ fragments' = fragments
             /\ fragment_ids' = fragment_ids /\ bloom' = bloom
          \/ /\ last_call'.ok
             /\ \E data \in Batches :
                   LET timestamp == now_us' \div UsPerMs
                   IN  /\ Cardinality(log' \ log) = Len(data)
                       /\ \A k \in 1..Len(data) :
                              \E r \in log' \ log : r.log = data[k].event /\ r.host = data[k].host
                       /\ \A k \in 1..Len(data) : \A f \in explode(data[k].event) :
                              [batch |-> timestamp, fragment |-> f] \in fragments'
      ]_vars

\* C23 witness: a write_second failed in a millisecond that holds no batch,
\* so at its commit, on a minute that holds rows
C23_Witness ==
    /\ last_call = [op |-> "write_second", ok |-> FALSE]
    /\ (now_us \div UsPerMs) \notin ListBatches
    /\ log # {}

\* C24: the i-th event of a write_second (from 0) is stored with the id
\* batch_ms * 10^6 + i, and every row of the call carries the batch batch_ms
C24_IdsInInputOrder ==
    [][ (Called("write_second") /\ last_call'.ok) =>
          \E data \in Batches :
              LET batch_ms == now_us' \div UsPerMs
              IN  /\ Cardinality(log' \ log) = Len(data)
                  /\ \A r \in log' \ log : r.batch = batch_ms
                  /\ \A i \in 0..(Len(data) - 1) :
                         \E r \in log' \ log :
                             /\ r.id = batch_ms * IdScale + i
                             /\ r.log = data[i + 1].event
                             /\ r.host = data[i + 1].host
                             /\ r.host_time = data[i + 1].time
      ]_vars

\* C24 witness: a call stored two events, the second under the id after the first
C24_Witness ==
    /\ last_call = [op |-> "write_second", ok |-> TRUE]
    /\ \E r, o \in log :
          /\ r.batch = now_us \div UsPerMs /\ o.batch = r.batch
          /\ r.log = disk_full /\ o.log = disk_ok
          /\ o.id = r.id + 1

----------------------------------------------------------------------------
(* Claims about one tick of the dispatcher, checked under SpecTick *)

\* the threads of the tick that were handed the event e
Holders(e) ==
    { i \in 1..Len(tick_threads) :
        tick_threads[i].split_data.lo <= e /\ e <= tick_threads[i].split_data.hi }

\* C25: ShardedMinute::write partitions its buffer: once the threads are
\* spawned every event is in the chunk of exactly one thread, no chunk has
\* more than 3000 events, and when the threads are joined each chunk that is
\* not empty was handed to write_second, whole
C25_Partition ==
    /\ \A i \in 1..Len(tick_threads) :
           ChunkLen(tick_threads[i].split_data) <= MAX_WRITE_PER_SECOND_PER_THREAD
    /\ tick_pc \in {"join", "seal"} =>
           \A e \in 1..tick_len : Cardinality(Holders(e)) = 1
    /\ tick_pc = "seal" =>
           \A i \in 1..Len(tick_threads) :
               tick_threads[i].wrote = ChunkLen(tick_threads[i].split_data)

\* C25 witness: a buffer of 3001 events went to two threads, 3000 and 1, and
\* both have written
C25_Witness ==
    /\ tick_pc = "seal"
    /\ tick_len = MAX_WRITE_PER_SECOND_PER_THREAD + 1
    /\ Len(tick_threads) = 2
    /\ tick_threads[1].wrote = MAX_WRITE_PER_SECOND_PER_THREAD
    /\ tick_threads[2].wrote = 1

\* C26: a tick never uses more shards than max_write_threads: neither more
\* threads nor more shard ids
C26_ShardsCapped ==
    /\ Len(tick_threads) <= max_write_threads
    /\ Cardinality({ tick_threads[i].unique_id : i \in 1..Len(tick_threads) })
           <= max_write_threads

\* C27: one writer per file: the threads of a tick have pairwise distinct
\* shard ids, no two of them hold the same minute file at the same time,
\* and all of them have ended when the seal starts and when the tick is over
C27_OneWriterPerFile ==
    /\ \A i, j \in 1..Len(tick_threads) :
           i # j => /\ tick_threads[i].unique_id # tick_threads[j].unique_id
                    /\ ThreadPath(tick_threads[i]) # ThreadPath(tick_threads[j])
    /\ tick_pc \in {"seal", "idle"} =>
           \A i \in 1..Len(tick_threads) : tick_threads[i].pc = "done"

\* C27 witness: two threads of a tick hold their minute files at the same time
C27_Witness ==
    /\ tick_pc = "join"
    /\ Len(tick_threads) = 2
    /\ tick_threads[1].pc = "opened"
    /\ tick_threads[2].pc = "opened"
    /\ tick_threads[1].split_data # tick_threads[2].split_data

----------------------------------------------------------------------------
(* Claims about the seal of the dispatcher, checked under SpecDispatch *)

\* C28: ShardedMinute::seal seals no ticket of the current minute: no minute
\* file was ever sealed before the clock had left the minute of its ticket
C28_SealsOnlyPast ==
    \A path \in DOMAIN shard_files : ~shard_files[path].sealed_early

\* C28 witness: a seal is over that sealed the file of the minute before and
\* left the written file of the current minute without a bloom
C28_Witness ==
    /\ dispatch_pc = "idle"
    /\ n_ticks = 2
    /\ \E node \in tickets :
          /\ TicketStart(node) = MinuteStart(clock_s)
          /\ shard_files[TicketPath(node)].events > 0
          /\ shard_files[TicketPath(node)].blooms = 0
    /\ \E node \in tickets :
          /\ TicketStart(node) < MinuteStart(clock_s)
          /\ shard_files[TicketPath(node)].blooms = 1

----------------------------------------------------------------------------
(* Claims about the fragment extractor, checked under SpecExplode *)

\* the places of a text where three characters stand together with no blank
WindowStarts(text) ==
    { i \in 1..(Len(text) - 2) : \A k \in 0..2 : ~is_whitespace(text[i + k]) }

----------------------------------------------------------------------------
(* Claims about the probes of a query, checked under SpecParse *)

\* C30: the probes give no false negative: when the tree tests a message
\* true, lambda_test is true for the fragments of the message and bloom_test
\* is true on every bloom that holds them; a tree that is a Not node is
\* true under both probes whatever the message
C30_ProbesNeverReject ==
    parse_pc = "probed" =>
        /\ parse_result => (parse_probe.lambda /\ parse_probe.bloom_rejects = {})
        /\ parse_tree.t = "Not" => (parse_probe.lambda /\ parse_probe.bloom_rejects = {})

\* C30 witness: the negation of a token tested true on a message that holds
\* every trigram of the token, and both probes let it through
C30_Witness ==
    /\ parse_pc = "probed"
    /\ parse_query = <<"!", "d", "f", "w", "d">>
    /\ parse_text = <<"d", "f", "w", " ", "F", "w", "d">>
    /\ parse_result
    /\ parse_tree.a.trigrams \subseteq explode(parse_text)
    /\ parse_probe.lambda
    /\ parse_probe.bloom_rejects = {}

----------------------------------------------------------------------------
(* Claims about MinuteDB::update, under SpecReader *)

\* the faults that make Minute::new or get_bloom_filter return Err
LoadFaults == {"open_err", "bloom_err", "sealed_bloom_err"}

\* the sealed files of new_list that db does not hold yet
SealedAbsent == { id \in scan_files \ db : id \in DOMAIN disk /\ disk[id].sealed }

\* C31: when opening one new minute or loading its bloom fails inside
\* MinuteDB::update, only that minute is skipped: every other sealed id of
\* new_ids that db did not hold yet is in db when the pass ends.
C31_FailureIsolated ==
    [][\A order \in Orders(scan_files) : \A fault \in [key : ReaderIds, kind : LoadFaults] :
           update(order, fault) => (SealedAbsent \ {fault.key}) \subseteq db']_vars

\* C33: when MinuteDB::update(new_ids) returns Ok, every key of db is in
\* new_ids, every id held before and in new_ids is still held, in both maps,
\* and was not opened again, every sealed id of new_ids that was absent is
\* held now, and no id of an unsealed minute is held.
C33_UpdatePostcondition ==
    [][\A order \in Orders(scan_files) : \A fault \in [key : ReaderIds, kind : Faults] :
           (update(order, fault) /\ UpdateEnd(order, fault).status = "run") =>
               /\ db' \subseteq scan_files
               /\ bloom_cache' \subseteq scan_files
               /\ (db \cap scan_files) \subseteq db'
               /\ (bloom_cache \cap scan_files) \subseteq bloom_cache'
               /\ UpdateEnd(order, fault).opened \cap db = {}
               /\ SealedAbsent \subseteq db'
               /\ \A id \in scan_files :
                      (id \in DOMAIN disk /\ ~disk[id].sealed) => id \notin db']_vars

\* an update has returned Ok with both minutes of its list held, sealed ones
C33_Witness ==
    /\ reader_pc = "scan"
    /\ ~locks_poisoned
    /\ Cardinality(scan_files) = 2
    /\ db = scan_files
    /\ \A id \in db : id \in DOMAIN disk /\ disk[id].sealed

\* C39: db and bloom_cache hold exactly the same keys in every state that a
\* holder of the map locks can see, whatever updates ran before, those that
\* returned an error or panicked part-way through included.
C39_SameKeys ==
    db = bloom_cache

\* an update has stopped at a failing minute after loading another one
C39_Witness ==
    /\ reader_pc \in {"scan", "dead"}
    /\ db # {}
    /\ \E id \in scan_files \ db : id \in DOMAIN disk /\ disk[id].sealed

----------------------------------------------------------------------------
(* Claims about malformed queries, under SpecParse *)

RECURSIVE Leaves(_)
\* the texts of the Token leaves of a tree
Leaves(tree) ==
    CASE tree.t = "Token" -> {tree.token}
      [] tree.t = "Not"   -> Leaves(tree.a)
      [] tree.t \in {"And", "Or"} -> Leaves(tree.l) \cup Leaves(tree.r)
      [] OTHER -> {}

\* C34: the parser is total: whatever the token list, groups side by side
\* included, the stack of build_tree never holds more than two nodes and the
\* panic on a stack above two is not reached.
C34_NoStackPanic ==
    parse_pc = "built" => parse_tree # Panic

\* C35: an unmatched ")", an unmatched "(" and an "&" without a left operand
\* become None subtrees: no tree of a query without quotes and escapes has a
\* Token leaf whose text is "(", ")" or "&".
C35_NoStructuralLeaf ==
    (parse_pc = "built" /\ parse_query \in MalformedQueries) =>
        Leaves(parse_tree) \cap {LP, RP, AMP} = {}

----------------------------------------------------------------------------
(* Claims about sealing again, under Spec; the clock of Spec does not step
   back between two calls *)

\* the trees of the queries a search may be called with
QueryTrees == { tree \in { Search_new(q) : q \in QueryPool } : Returns(tree) }

\* C36: seal on a minute that is sealed already changes neither what
\* get_bloom_filter returns, which stays the oldest bloom row, nor what
\* Minute::search returns for any query.
C36_ResealNoOp ==
    [][(is_sealed /\ Called("seal") /\ last_call'.ok) =>
           /\ get_bloom_filter' = get_bloom_filter
           /\ \A tree \in QueryTrees : SearchResults(tree)' = SearchResults(tree)]_vars

\* a minute with rows was sealed twice, and the second seal stored another
\* bloom than the first
C36_Witness ==
    /\ last_call = [op |-> "seal", ok |-> TRUE]
    /\ log # {}
    /\ \E first, second \in bloom : first.id < second.id /\ first.bloom # second.bloom

----------------------------------------------------------------------------
(* Claims about the locks of MinuteDB, under SpecLocks and SpecLocksFair *)

\* the map locks a search holds
HeldBy(s) == { name \in MapLocks : s \in map_locks[name].readers }

\* C32: MinuteDB::search holds no map lock during storage I/O: while a call
\* runs minute.search under the Mutex of the minute it has released the
\* RwLocks of db and bloom_cache, so that an update can take them.
C32_NoMapLockInMinuteSearch ==
    \A s \in Searchers : search_pc[s] = "minute_search" => HeldBy(s) = {}

\* a search waits for a lock that is not to be had now
SearchBlocked(s) ==
    \/ search_pc[s] \in {"read_1", "read_2"} /\ ~ReadLockable(SearchLockAt(search_pc[s]))
    \/ search_pc[s] = "lock_minute" /\ minute_lock # {}

\* the update waits for a lock that is not to be had now
UpdateBlocked ==
    update_pc \in {"write_1", "write_2"} /\ ~WriteLockable(UpdateLockAt(update_pc))

\* calls are under way and every one of them is blocked
Deadlocked ==
    /\ update_pc # "idle" \/ \E s \in Searchers : search_pc[s] # "idle"
    /\ update_pc # "idle" => UpdateBlocked
    /\ \A s \in Searchers : search_pc[s] # "idle" => SearchBlocked(s)

----------------------------------------------------------------------------
(* Claims about read_loop in the long run, under SpecReaderFair *)

\* C37: a minute file within the retention cap that a refresh finds sealed is
\* inserted into db and bloom_cache by that iteration of read_loop or a later
\* one, unless it has left the cap or the disk by then.
C37_EventualPickup ==
    \A id \in ReaderIds :
        (reader_pc = "update" /\ id \in scan_files /\ id \in DOMAIN disk /\ disk[id].sealed)
            ~> (id \in db \cap bloom_cache \/ id \notin scan_files \/ id \notin DOMAIN disk)

----------------------------------------------------------------------------
(* Claims about sealing by the dispatcher, under SpecDispatch *)

\* the tickets of a minute earlier than that of the newest ticket: the tick
\* that registered the newest one ran when their minute was over
DueTickets == { node \in tickets : \E newer \in tickets : TicketStart(node) < TicketStart(newer) }

\* the file of the ticket has a bloom row
TicketSealed(node) ==
    TicketPath(node) \in DOMAIN shard_files /\ shard_files[TicketPath(node)].blooms > 0

\* C38: every shard file with a WriteTicket is sealed by a tick that comes
\* once its minute is no longer the current one, even when sealing another
\* ticket's file fails in that tick: when such a tick is over, no file but
\* the one whose seal failed is left unsealed.
C38_SealedDespiteFailure ==
    dispatch_pc = "idle" =>
        Cardinality({ node \in DueTickets : ~TicketSealed(node) }) <= 1

====
